---- MODULE Spec2Model ----
(***************************************************************************)
(* ERPNext MCP server: the HTTP transport's session lifecycle              *)
(* (src/src/http-server.ts) and the tool / resource handler sets           *)
(* (src/src/handlers/*.ts, src/src/index.ts).                              *)
(***************************************************************************)
EXTENDS Integers, Sequences, FiniteSets, Bags, TLC

\* ---------------------------------------------------------------- bounds
MaxTransports == 2      \* transport instances constructed in one run
MaxInFlight == 2        \* handlers (request or signal) suspended at an await

None == 0
NotExited == -1
TransportIds == 1..MaxTransports
SessionIds == 1..MaxTransports      \* the ids the generator can produce

VARIABLES
  transports,     \* the session map: session id -> transport (None: no such key)
  sessionIdOf,    \* transport.sessionId of each instance (None: undefined)
  serverOf,       \* the protocol-server instance connected to each transport
  nextTransport,  \* transport instances constructed so far
  nextServer,     \* protocol-server instances constructed so far
  usedIds,        \* session ids the generator has produced so far
  requests,       \* the handlers suspended at an await
  event,          \* the last step: operation, header, transport, response
  exited,         \* process exit code, NotExited while running
  registered,     \* history: transports ever stored under each id
  removed,        \* history: ids ever deleted from the map
  closeCalled,    \* history: transports the shutdown loop called close() on
  closeReturned,  \* history: session ids whose close() returned to the loop
  closeThrew,     \* history: session ids whose close() threw in the loop
  entry,          \* the entry point that was started: "http" or "stdio"
  processEnv,     \* process.env at startup
  erpnext,        \* the ERPNextClient instance (NoClient before construction)
  call,           \* the last protocol request handed to a handler
  reply,          \* what its handler handed back
  upstream,       \* the upstream requests the handler issued for it
  logs,           \* the error lines the client logged for it
  outcomes        \* how the upstream requests of that call settle

httpVars == <<transports, sessionIdOf, serverOf, nextTransport, nextServer,
              usedIds, requests, event, exited, registered, removed,
              closeCalled, closeReturned, closeThrew>>

sessionVars == <<transports, sessionIdOf, serverOf, nextTransport, nextServer,
                 usedIds, requests, event, registered, removed, closeCalled, closeReturned, closeThrew>>

handlerVars == <<entry, processEnv, erpnext, call, reply, upstream, logs, outcomes>>

vars == <<httpVars, handlerVars>>

\* ------------------------------------------------------ the session map
Live(m) == {id \in SessionIds : m[id] # None}

\* a callback that stores the transport under every key
onsessioninitializedEveryKey(m, newSessionId, t) == [id \in SessionIds |-> t]

\* transports[newSessionId] = transport
onsessioninitialized(m, newSessionId, t) == [m EXCEPT ![newSessionId] = t]

\* delete transports[closedSessionId]
onsessionclosed(m, closedSessionId) ==
  IF closedSessionId = None THEN m ELSE [m EXCEPT ![closedSessionId] = None]

\* an onclose that empties the map
oncloseAll(m, sid) == [id \in SessionIds |-> None]

\* transport.onclose: delete transports[sid] if sid is set and mapped
onclose(m, sid) ==
  IF sid # None /\ m[sid] # None THEN [m EXCEPT ![sid] = None] ELSE m

\* a generator that can hand out an id it has handed out before
randomUUIDRepeat(used) == SessionIds

\* sessionIdGenerator: () => randomUUID(). The ids a call may return: a UUID
\* already produced is not produced again; ids are opaque, so the least
\* unused one stands for any fresh one
randomUUID(used) ==
  LET free == SessionIds \ used
  IN IF free = {} THEN {} ELSE {CHOOSE id \in free : \A other \in free : id <= other}

\* one module-level server instance shared by every transport
createMcpServerShared(n) == 1

\* new Server(...) with the handlers registered: a new instance per call
createMcpServer(n) == n + 1

\* the header alone, without the look-up in the map
MappedHeaderOnly(m, sid) == sid # None

\* sessionId && transports[sessionId]
Mapped(m, sid) == sid # None /\ m[sid] # None

Ev(op, sid, init, t, status, code) ==
  [op |-> op, sid |-> sid, init |-> init, t |-> t, status |-> status, code |-> code]

\* a suspended handler: the request's method (or SIGINT), its session id
\* header (for SIGINT the loop variable), where it waits, the transport it
\* holds; for SIGINT also the for-in enumeration: the keys it started with
\* that are still to come, and the keys it yielded that are still there
Req(kind, sid, pc, t, pending, threw) ==
  [kind |-> kind, sid |-> sid, pc |-> pc, t |-> t,
   pending |-> pending, threw |-> threw]

\* the suspended handlers are a bag: two requests may be at the same place
One(r) == SetToBag({r})
InFlight == BagToSet(requests)

Running == exited = NotExited

SessionInit ==
  /\ transports = [id \in SessionIds |-> None]
  /\ sessionIdOf = [t \in TransportIds |-> None]
  /\ serverOf = [t \in TransportIds |-> None]
  /\ nextTransport = 0
  /\ nextServer = 0
  /\ usedIds = {}
  /\ requests = EmptyBag
  /\ event = Ev("none", None, FALSE, None, 0, 0)
  /\ exited = NotExited
  /\ registered = [id \in SessionIds |-> {}]
  /\ removed = {}
  /\ closeCalled = {}
  /\ closeReturned = {}
  /\ closeThrew = {}

\* a key deleted from the map leaves every running enumeration
Enumeration(r, m) ==
  [r EXCEPT !.pending = @ \cap Live(m), !.threw = @ \cap Live(m)]

Enumerations(R, m) ==
  LET S == {Enumeration(r, m) : r \in BagToSet(R)}
  IN IF S = BagToSet(R) THEN R ELSE
     [x \in S |-> LET from == {r \in BagToSet(R) : Enumeration(r, m) = x}
                       sum[F \in SUBSET from] ==
                         IF F = {} THEN 0
                         ELSE LET r == CHOOSE r \in F : TRUE
                              IN R[r] + sum[F \ {r}]
                   IN sum[from]]

\* the step's assignments to the map and to the set of suspended handlers,
\* with the map's history
Commit(R, m) ==
  /\ requests' = Enumerations(R, m)
  /\ transports' = m
  /\ registered' = [id \in SessionIds |->
                      IF m[id] # None /\ m[id] # transports[id]
                      THEN registered[id] \cup {m[id]} ELSE registered[id]]
  /\ removed' = removed \cup {id \in SessionIds : transports[id] # None /\ m[id] = None}

Same == UNCHANGED <<transports, requests, registered, removed>>

\* ------------------------------------------------------------ POST /mcp
\* the request handed to the transport constructed last, not the mapped one
PostReuseLatest(sid, init) ==
  /\ Mapped(transports, sid)
  /\ \E outcome \in {"ok", "throw"} :
       event' = IF outcome = "ok"
                THEN Ev("POST", sid, init, nextTransport, 200, 0)
                ELSE Ev("POST", sid, init, nextTransport, 500, -32603)
  /\ Same
  /\ UNCHANGED <<sessionIdOf, serverOf, nextTransport, nextServer, usedIds, exited, closeCalled, closeReturned, closeThrew>>

\* sessionId && transports[sessionId]: reuse the mapped transport;
\* await transport.handleRequest(req, res, req.body): the transport answers,
\* or the call rejects and the catch block answers 500. Nothing of the
\* session state is read or written after the hand-over, so the hand-over
\* and its settling are one step
PostReuse(sid, init) ==
  /\ Mapped(transports, sid)
  /\ \E outcome \in {"ok", "throw"} :
       event' = IF outcome = "ok"
                THEN Ev("POST", sid, init, transports[sid], 200, 0)
                ELSE Ev("POST", sid, init, transports[sid], 500, -32603)
  /\ Same
  /\ UNCHANGED <<sessionIdOf, serverOf, nextTransport, nextServer, usedIds, exited, closeCalled, closeReturned, closeThrew>>

\* a branch that tests the body only: an initialize request with a session
\* id header that is not in the map gets a new transport as well
PostNewAnyHeader(sid, init) ==
  /\ ~Mapped(transports, sid)
  /\ init
  /\ BagCardinality(requests) < MaxInFlight
  /\ nextTransport < MaxTransports
  /\ nextTransport' = nextTransport + 1
  /\ nextServer' = createMcpServer(nextServer)
  /\ serverOf' = [serverOf EXCEPT ![nextTransport'] = nextServer']
  /\ Commit(requests (+) One(Req("POST", None, "connect", nextTransport',
                                         {}, {})), transports)
  /\ event' = Ev("POST", sid, TRUE, nextTransport', 0, 0)
  /\ UNCHANGED <<sessionIdOf, usedIds, exited, closeCalled, closeReturned, closeThrew>>

\* !sessionId && isInitializeRequest(req.body): new transport, new server,
\* await server.connect(transport)
PostNew(sid, init) ==
  /\ ~Mapped(transports, sid)
  /\ sid = None /\ init
  /\ BagCardinality(requests) < MaxInFlight
  /\ nextTransport < MaxTransports
  /\ nextTransport' = nextTransport + 1
  /\ nextServer' = createMcpServer(nextServer)
  /\ serverOf' = [serverOf EXCEPT ![nextTransport'] = nextServer']
  /\ Commit(requests (+) One(Req("POST", None, "connect", nextTransport',
                                         {}, {})), transports)
  /\ event' = Ev("POST", None, TRUE, nextTransport', 0, 0)
  /\ UNCHANGED <<sessionIdOf, usedIds, exited, closeCalled, closeReturned, closeThrew>>

\* else: 400 with the JSON-RPC envelope, code -32000, id null
PostInvalid(sid, init) ==
  /\ ~Mapped(transports, sid)
  /\ ~(sid = None /\ init)
  /\ event' = Ev("POST", sid, init, None, 400, -32000)
  /\ Same
  /\ UNCHANGED <<sessionIdOf, serverOf, nextTransport, nextServer, usedIds, exited, closeCalled, closeReturned, closeThrew>>

PostMcp(sid, init) ==
  /\ Running
  /\ UNCHANGED handlerVars
  /\ \/ PostReuse(sid, init)
     \/ PostNew(sid, init)
     \/ PostInvalid(sid, init)

\* await server.connect(transport) settles; on success the request is handed
\* to the new transport, on failure the catch block answers 500
PostConnect(r, ok) ==
  /\ Running
  /\ UNCHANGED handlerVars
  /\ r \in InFlight /\ r.kind = "POST" /\ r.pc = "connect"
  /\ IF ok
     THEN /\ Commit((requests (-) One(r)) (+) One([r EXCEPT !.pc = "handleInit"]), transports)
          /\ event' = Ev("connect", None, TRUE, r.t, 0, 0)
     ELSE /\ Commit(requests (-) One(r), transports)
          /\ event' = Ev("connect", None, TRUE, r.t, 500, -32603)
  /\ UNCHANGED <<sessionIdOf, serverOf, nextTransport, nextServer, usedIds, exited, closeCalled, closeReturned, closeThrew>>

\* await transport.handleRequest(req, res, req.body) of the initialize
\* request. "ok": the transport takes an id from sessionIdGenerator, sets its
\* sessionId, calls onsessioninitialized and answers; "late": the same, but
\* the call then rejects and the catch block runs; "refused": the transport
\* answers an error itself; "throw": the call rejects before any of it
TransportInitialize(r, outcome) ==
  /\ Running
  /\ UNCHANGED handlerVars
  /\ r \in InFlight /\ r.kind = "POST" /\ r.pc = "handleInit"
  /\ \/ /\ outcome \in {"ok", "late"}
        /\ \E newSessionId \in randomUUID(usedIds) :
             /\ usedIds' = usedIds \cup {newSessionId}
             /\ sessionIdOf' = [sessionIdOf EXCEPT ![r.t] = newSessionId]
             /\ Commit(requests (-) One(r),
                       onsessioninitialized(transports, newSessionId, r.t))
             /\ event' = IF outcome = "ok"
                         THEN Ev("initialize", newSessionId, TRUE, r.t, 200, 0)
                         ELSE Ev("initialize", newSessionId, TRUE, r.t, 500, -32603)
     \/ /\ outcome = "refused"
        /\ event' = Ev("initialize", None, TRUE, r.t, 406, 0)
        /\ Commit(requests (-) One(r), transports)
        /\ UNCHANGED <<sessionIdOf, usedIds>>
     \/ /\ outcome = "throw"
        /\ event' = Ev("initialize", None, TRUE, r.t, 500, -32603)
        /\ Commit(requests (-) One(r), transports)
        /\ UNCHANGED <<sessionIdOf, usedIds>>
  /\ UNCHANGED <<serverOf, nextTransport, nextServer, exited, closeCalled, closeReturned, closeThrew>>

\* ------------------------------------------------------------- GET /mcp
\* !sessionId || !transports[sessionId]: 400, plain text
GetInvalid(sid) ==
  /\ ~Mapped(transports, sid)
  /\ event' = Ev("GET", sid, FALSE, None, 400, 0)
  /\ Same
  /\ UNCHANGED <<sessionIdOf, serverOf, nextTransport, nextServer, usedIds, exited, closeCalled, closeReturned, closeThrew>>

\* const transport = transports[sessionId];
\* await transport.handleRequest(req, res): the transport answers, or the
\* call rejects (this handler has no catch block: no response is written)
GetStream(sid) ==
  /\ Mapped(transports, sid)
  /\ \E outcome \in {"ok", "throw"} :
       event' = IF outcome = "ok"
                THEN Ev("GET", sid, FALSE, transports[sid], 200, 0)
                ELSE Ev("GET", sid, FALSE, transports[sid], 0, 0)
  /\ Same
  /\ UNCHANGED <<sessionIdOf, serverOf, nextTransport, nextServer, usedIds, exited, closeCalled, closeReturned, closeThrew>>

GetMcp(sid) ==
  /\ Running
  /\ UNCHANGED handlerVars
  /\ GetInvalid(sid) \/ GetStream(sid)

\* ---------------------------------------------------------- DELETE /mcp
\* !sessionId || !transports[sessionId]: 400, plain text
DeleteInvalid(sid) ==
  /\ ~Mapped(transports, sid)
  /\ event' = Ev("DELETE", sid, FALSE, None, 400, 0)
  /\ Same
  /\ UNCHANGED <<sessionIdOf, serverOf, nextTransport, nextServer, usedIds, exited, closeCalled, closeReturned, closeThrew>>

\* the DELETE handed to the transport constructed last, not the mapped one
DeleteRouteLatest(sid) ==
  /\ Mapped(transports, sid)
  /\ BagCardinality(requests) < MaxInFlight
  /\ Commit(requests (+) One(Req("DELETE", sid, "terminate", nextTransport,
                                         {}, {})), transports)
  /\ event' = Ev("DELETE", sid, FALSE, nextTransport, 0, 0)
  /\ UNCHANGED <<sessionIdOf, serverOf, nextTransport, nextServer, usedIds, exited, closeCalled, closeReturned, closeThrew>>

\* const transport = transports[sessionId]; the request is handed to it
DeleteRoute(sid) ==
  /\ Mapped(transports, sid)
  /\ BagCardinality(requests) < MaxInFlight
  /\ Commit(requests (+) One(Req("DELETE", sid, "terminate", transports[sid],
                                         {}, {})), transports)
  /\ event' = Ev("DELETE", sid, FALSE, transports[sid], 0, 0)
  /\ UNCHANGED <<sessionIdOf, serverOf, nextTransport, nextServer, usedIds, exited, closeCalled, closeReturned, closeThrew>>

DeleteMcp(sid) ==
  /\ Running
  /\ UNCHANGED handlerVars
  /\ DeleteInvalid(sid) \/ DeleteRoute(sid)

\* a DELETE answered 200 with neither callback deleting the key
TransportTerminateKeep(r, outcome) ==
  /\ Running
  /\ UNCHANGED handlerVars
  /\ r \in InFlight /\ r.kind = "DELETE" /\ r.pc = "terminate"
  /\ outcome = "ok"
  /\ Commit(requests (-) One(r), transports)
  /\ event' = Ev("terminate", r.sid, FALSE, r.t, 200, 0)
  /\ UNCHANGED <<sessionIdOf, serverOf, nextTransport, nextServer, usedIds, exited, closeCalled, closeReturned, closeThrew>>

\* await transport.handleRequest(req, res) of the DELETE. "ok": the transport
\* calls onsessionclosed with its session id, closes itself (onclose runs)
\* and answers 200; "refused": it answers an error itself; "throw": the call
\* rejects and the catch block answers 500
TransportTerminate(r, outcome) ==
  /\ Running
  /\ UNCHANGED handlerVars
  /\ r \in InFlight /\ r.kind = "DELETE" /\ r.pc = "terminate"
  /\ \/ /\ outcome = "ok"
        /\ Commit(requests (-) One(r),
                  onclose(onsessionclosed(transports, sessionIdOf[r.t]),
                          sessionIdOf[r.t]))
        /\ event' = Ev("terminate", r.sid, FALSE, r.t, 200, 0)
     \/ /\ outcome = "refused"
        /\ event' = Ev("terminate", r.sid, FALSE, r.t, 406, 0)
        /\ Commit(requests (-) One(r), transports)
     \/ /\ outcome = "throw"
        /\ event' = Ev("terminate", r.sid, FALSE, r.t, 500, 0)
        /\ Commit(requests (-) One(r), transports)
  /\ UNCHANGED <<sessionIdOf, serverOf, nextTransport, nextServer, usedIds, exited, closeCalled, closeReturned, closeThrew>>

\* a transport closes for a reason of its own: its onclose callback runs
TransportClose(t) ==
  /\ Running
  /\ UNCHANGED handlerVars
  /\ t \in 1..nextTransport
  /\ Commit(requests, onclose(transports, sessionIdOf[t]))
  /\ event' = Ev("onclose", sessionIdOf[t], FALSE, t, 0, 0)
  /\ UNCHANGED <<sessionIdOf, serverOf, nextTransport, nextServer, usedIds, exited, closeCalled, closeReturned, closeThrew>>

\* ------------------------------------------------------------- shutdown
\* for (const sessionId in transports): the keys the enumeration may yield
\* next. Every key is yielded at most once; a key deleted before its turn is
\* skipped; a key added after the loop started may or may not be yielded.
forInNext(pending, threw, m) == Live(m) \ threw

\* the enumeration may end once every key it started with has been yielded
\* or deleted
forInDone(pending, m) == pending \cap Live(m) = {}

\* the loop from its head, for the handler h, with the map as m and the other
\* suspended handlers R: either close() is called on the next key's transport
\* and the handler suspends at the await, or the loop is over and
\* process.exit(0) runs
ShutdownLoop(h, R, m) ==
  \/ \E sessionId \in forInNext(h.pending, h.threw, m) :
       /\ BagCardinality(R) < MaxInFlight
       /\ Commit(R (+) One([h EXCEPT !.pending = @ \ {sessionId},
                                         !.sid = sessionId,
                                         !.t = m[sessionId]]), m)
       /\ closeCalled' = closeCalled \cup {m[sessionId]}
       /\ event' = Ev("close", sessionId, FALSE, m[sessionId], 0, 0)
       /\ exited' = exited
  \/ /\ forInDone(h.pending, m)
     /\ Commit(R, m)
     /\ closeCalled' = closeCalled
     /\ event' = Ev("exit", None, FALSE, None, 0, 0)
     /\ exited' = 0

ShutdownStart ==
  /\ Running
  /\ UNCHANGED handlerVars
  /\ ShutdownLoop(Req("SIGINT", None, "closing", None, Live(transports), {}),
                  requests, transports)
  /\ UNCHANGED <<sessionIdOf, serverOf, nextTransport, nextServer, usedIds, closeReturned, closeThrew>>

\* process.on("SIGINT")
Sigint == ShutdownStart

\* process.on("SIGTERM"): process.emit("SIGINT") runs the SIGINT listener
Sigterm == ShutdownStart

\* a loop whose delete is outside the try block: the key goes also when
\* close() threw
ShutdownResumeDeleteAlways(h, ok) ==
  /\ Running
  /\ UNCHANGED handlerVars
  /\ h \in InFlight /\ h.kind = "SIGINT"
  /\ LET m == IF ok
              THEN onsessionclosed(onclose(transports, sessionIdOf[h.t]), h.sid)
              ELSE onsessionclosed(transports, h.sid)
         h2 == [h EXCEPT !.threw = IF ok THEN @ ELSE @ \cup {h.sid}]
     IN ShutdownLoop(h2, requests (-) One(h), m)
  /\ closeReturned' = IF ok THEN closeReturned \cup {h.sid} ELSE closeReturned
  /\ closeThrew' = IF ok THEN closeThrew ELSE closeThrew \cup {h.sid}
  /\ UNCHANGED <<sessionIdOf, serverOf, nextTransport, nextServer, usedIds>>

\* await transports[sessionId].close() settles. Resolved: the transport has
\* run onclose, and the handler deletes the key. Rejected: the catch block
\* logs. Either way the loop goes on.
ShutdownResume(h, ok) ==
  /\ Running
  /\ UNCHANGED handlerVars
  /\ h \in InFlight /\ h.kind = "SIGINT"
  /\ LET m == IF ok
              THEN onsessionclosed(onclose(transports, sessionIdOf[h.t]), h.sid)
              ELSE transports
         h2 == [h EXCEPT !.threw = IF ok THEN @ ELSE @ \cup {h.sid}]
     IN ShutdownLoop(h2, requests (-) One(h), m)
  /\ closeReturned' = IF ok THEN closeReturned \cup {h.sid} ELSE closeReturned
  /\ closeThrew' = IF ok THEN closeThrew ELSE closeThrew \cup {h.sid}
  /\ UNCHANGED <<sessionIdOf, serverOf, nextTransport, nextServer, usedIds>>

\* ---------------------------------------------------------------- system
\* ============================================ JavaScript values and strings
\* A string is a sequence of tokens whose concatenation is its text; a token
\* is one character wherever the code inspects characters (identifiers,
\* URLs) and a whole literal elsewhere (message templates).
\* A value is a record: ty is its type, s its characters (a string) or its
\* String() image (an array), n / d its numerator and denominator (a
\* number; d = 0 is NaN).
Val(ty, s, n, d) == [ty |-> ty, s |-> s, n |-> n, d |-> d]
Undefined == Val("undefined", <<>>, 0, 1)
Null == Val("null", <<>>, 0, 1)
Str(s) == Val("string", s, 0, 1)
Num(n, d) == Val("number", <<>>, n, d)
NaN == Num(0, 0)
Obj(name) == Val("object", name, 0, 1)      \* { name: <name>, ... }
Arr(image) == Val("array", image, 0, 1)

\* value === undefined || value === null
Nullish(v) == v.ty \in {"undefined", "null"}

\* ToBoolean: undefined, null, "", 0 and NaN are falsy
Truthy(v) ==
  CASE v.ty \in {"undefined", "null"} -> FALSE
    [] v.ty = "string" -> Len(v.s) > 0
    [] v.ty = "number" -> v.d # 0 /\ v.n # 0
    [] OTHER -> TRUE

Digit == <<"0", "1", "2", "3", "4", "5", "6", "7", "8", "9">>
Digits == {Digit[i] : i \in 1..10}
Lower == {"a", "b", "c", "d", "e", "f", "g", "h", "i", "j", "k", "l", "m",
          "n", "o", "p", "q", "r", "s", "t", "u", "v", "w", "x", "y", "z"}
Upper == {"A", "B", "C", "D", "E", "F", "G", "H", "I", "J", "K", "L", "M",
          "N", "O", "P", "Q", "R", "S", "T", "U", "V", "W", "X", "Y", "Z"}
WhiteSpace == {" ", "\t", "\n", "\r"}

RECURSIVE ToDigits(_)
ToDigits(n) == IF n < 10 THEN <<Digit[n + 1]>>
               ELSE ToDigits(n \div 10) \o <<Digit[(n % 10) + 1]>>

RECURSIVE Pow10(_)
Pow10(k) == IF k = 0 THEN 1 ELSE 10 * Pow10(k - 1)

\* a decimal fraction n / d in lowest decimal terms (3.50 is 3.5)
RECURSIVE Decimal(_, _)
Decimal(n, d) == IF d > 1 /\ n % 10 = 0 THEN Decimal(n \div 10, d \div 10)
                 ELSE Num(n, d)

\* the fraction digits of r / d, leading zeros included
RECURSIVE FractionDigits(_, _)
FractionDigits(r, d) == IF r = 0 THEN <<>>
                        ELSE <<Digit[((10 * r) \div d) + 1]>>
                             \o FractionDigits((10 * r) % d, d)

\* Number.prototype.toString for the decimal fractions of the model
NumberToString(v) ==
  IF v.d = 0 THEN <<"N", "a", "N">>
  ELSE LET a == IF v.n < 0 THEN 0 - v.n ELSE v.n
           sign == IF v.n < 0 THEN <<"-">> ELSE <<>>
       IN IF a % v.d = 0 THEN sign \o ToDigits(a \div v.d)
          ELSE sign \o ToDigits(a \div v.d) \o <<".">> \o FractionDigits(a % v.d, v.d)

\* String(value)
String(v) ==
  CASE v.ty = "string" -> v.s
    [] v.ty = "number" -> NumberToString(v)
    [] v.ty = "undefined" -> <<"undefined">>
    [] v.ty = "null" -> <<"null">>
    [] v.ty = "object" -> <<"[", "o", "b", "j", "e", "c", "t", " ",
                            "O", "b", "j", "e", "c", "t", "]">>
    [] OTHER -> v.s

RECURSIVE trimStart(_)
trimStart(s) == IF s # <<>> /\ Head(s) \in WhiteSpace THEN trimStart(Tail(s)) ELSE s

RECURSIVE trimEnd(_)
trimEnd(s) == IF s # <<>> /\ s[Len(s)] \in WhiteSpace
              THEN trimEnd(SubSeq(s, 1, Len(s) - 1)) ELSE s

\* String.prototype.trim
trim(s) == trimEnd(trimStart(s))

\* the value of a run of decimal digits
RECURSIVE DigitsValue(_)
DigitsValue(s) ==
  IF s = <<>> THEN 0
  ELSE 10 * DigitsValue(SubSeq(s, 1, Len(s) - 1))
       + (CHOOSE i \in 0..9 : Digit[i + 1] = s[Len(s)])

AllDigits(s) == \A i \in 1..Len(s) : s[i] \in Digits

\* StringToNumber for decimal literals without exponent: optional sign,
\* digits, optional fraction; "" is 0; anything else is NaN
StringToNumber(str) ==
  LET t == trim(str)
      neg == t # <<>> /\ Head(t) = "-"
      u == IF t # <<>> /\ Head(t) \in {"-", "+"} THEN Tail(t) ELSE t
      dots == {i \in 1..Len(u) : u[i] = "."}
      sg(k) == IF neg THEN 0 - k ELSE k
  IN IF t = <<>> THEN Num(0, 1)
     ELSE IF u = <<>> THEN NaN
     ELSE IF dots = {} THEN IF AllDigits(u) THEN Num(sg(DigitsValue(u)), 1) ELSE NaN
     ELSE IF Cardinality(dots) > 1 THEN NaN
     ELSE LET i == CHOOSE k \in dots : TRUE
              ip == SubSeq(u, 1, i - 1)
              fp == SubSeq(u, i + 1, Len(u))
          IN IF Len(u) = 1 \/ ~AllDigits(ip) \/ ~AllDigits(fp) THEN NaN
             ELSE Decimal(sg(Pow10(Len(fp)) * DigitsValue(ip) + DigitsValue(fp)),
                          Pow10(Len(fp)))

\* Number(value)
Number(v) ==
  CASE v.ty = "number" -> v
    [] v.ty = "string" -> StringToNumber(v.s)
    [] v.ty = "null" -> Num(0, 1)
    [] v.ty = "array" -> StringToNumber(v.s)
    [] OTHER -> NaN

\* Number.isInteger
isInteger(v) == v.d # 0 /\ v.n % v.d = 0

\* ============================================================== validation
\* a returned value, or a thrown Error with its message
Return(v) == [ok |-> TRUE, value |-> v, message |-> <<>>]
Throw(message) == [ok |-> FALSE, value |-> Undefined, message |-> message]

MAX_IDENTIFIER_LENGTH == 140

\* the pattern without its anchors: /[a-zA-Z0-9_\- ]+/.test(s)
VALID_IDENTIFIER_PATTERN_UNANCHORED(s) ==
  \E i \in 1..Len(s) : s[i] \in Lower \cup Upper \cup Digits \cup {"_", "-", " "}

\* /^[a-zA-Z0-9_\- ]+$/.test(s)
VALID_IDENTIFIER_PATTERN(s) ==
  /\ Len(s) > 0
  /\ \A i \in 1..Len(s) : s[i] \in Lower \cup Upper \cup Digits \cup {"_", "-", " "}

\* a validation that returns the text as given, checked but not trimmed
validateIdentifierUntrimmed(value, fieldName) ==
  IF Nullish(value) THEN Throw(<<fieldName, " is required">>)
  ELSE LET strValue == trim(String(value))
       IN IF Len(strValue) = 0 THEN Throw(<<fieldName, " cannot be empty">>)
          ELSE IF Len(strValue) > MAX_IDENTIFIER_LENGTH
          THEN Throw(<<fieldName, " exceeds maximum length of ">>
                     \o ToDigits(MAX_IDENTIFIER_LENGTH) \o <<" characters">>)
          ELSE IF ~VALID_IDENTIFIER_PATTERN(strValue)
          THEN Throw(<<fieldName, " contains invalid characters. Only alphanumeric characters, spaces, hyphens, and underscores are allowed.">>)
          ELSE Return(Str(String(value)))

\* a length check that also rejects the maximum length itself
validateIdentifierInclusive(value, fieldName) ==
  IF Nullish(value) THEN Throw(<<fieldName, " is required">>)
  ELSE LET strValue == trim(String(value))
       IN IF Len(strValue) = 0 THEN Throw(<<fieldName, " cannot be empty">>)
          ELSE IF Len(strValue) >= MAX_IDENTIFIER_LENGTH
          THEN Throw(<<fieldName, " exceeds maximum length of ">>
                     \o ToDigits(MAX_IDENTIFIER_LENGTH) \o <<" characters">>)
          ELSE IF ~VALID_IDENTIFIER_PATTERN(strValue)
          THEN Throw(<<fieldName, " contains invalid characters. Only alphanumeric characters, spaces, hyphens, and underscores are allowed.">>)
          ELSE Return(Str(strValue))

validateIdentifier(value, fieldName) ==
  IF Nullish(value) THEN Throw(<<fieldName, " is required">>)
  ELSE LET strValue == trim(String(value))
       IN IF Len(strValue) = 0 THEN Throw(<<fieldName, " cannot be empty">>)
          ELSE IF Len(strValue) > MAX_IDENTIFIER_LENGTH
          THEN Throw(<<fieldName, " exceeds maximum length of ">>
                     \o ToDigits(MAX_IDENTIFIER_LENGTH) \o <<" characters">>)
          ELSE IF ~VALID_IDENTIFIER_PATTERN(strValue)
          THEN Throw(<<fieldName, " contains invalid characters. Only alphanumeric characters, spaces, hyphens, and underscores are allowed.">>)
          ELSE Return(Str(strValue))

validateObject(value, fieldName) ==
  IF Nullish(value) THEN Throw(<<fieldName, " is required">>)
  ELSE IF value.ty # "object" THEN Throw(<<fieldName, " must be an object">>)
  ELSE Return(value)

\* a check that lets zero through
validatePositiveIntOrZero(value, fieldName) ==
  IF Nullish(value) THEN Return(Undefined)
  ELSE LET numValue == Number(value)
       IN IF ~isInteger(numValue) \/ numValue.n < 0
          THEN Throw(<<fieldName, " must be a positive integer">>)
          ELSE Return(Num(numValue.n \div numValue.d, 1))

validatePositiveInt(value, fieldName) ==
  IF Nullish(value) THEN Return(Undefined)
  ELSE LET numValue == Number(value)
       IN IF ~isInteger(numValue) \/ numValue.n <= 0
          THEN Throw(<<fieldName, " must be a positive integer">>)
          ELSE Return(Num(numValue.n \div numValue.d, 1))

\* ========================================================== configuration
\* process.env: ERPNEXT_URL, ERPNEXT_API_KEY, ERPNEXT_API_SECRET
Env(url, apiKey, apiSecret) == [url |-> url, apiKey |-> apiKey, apiSecret |-> apiSecret]

getRequiredEnv(value, name) ==
  IF ~Truthy(value) THEN Throw(<<name, " environment variable is required">>)
  ELSE Return(value)

\* s.replace(/\/$/, '')
removeTrailingSlash(s) ==
  IF s # <<>> /\ s[Len(s)] = "/" THEN SubSeq(s, 1, Len(s) - 1) ELSE s

startsWith(s, prefix) ==
  Len(s) >= Len(prefix) /\ SubSeq(s, 1, Len(prefix)) = prefix

\* a validation of the URL alone
validateUrlOnly(erpnextUrl, apiKey, apiSecret) ==
  IF ~startsWith(erpnextUrl, <<"h", "t", "t", "p">>)
  THEN Throw(<<"ERPNEXT_URL must include protocol (http:// or https://)">>)
  ELSE Return(Undefined)

\* Config.validate
validate(erpnextUrl, apiKey, apiSecret) ==
  IF ~startsWith(erpnextUrl, <<"h", "t", "t", "p">>)
  THEN Throw(<<"ERPNEXT_URL must include protocol (http:// or https://)">>)
  ELSE IF (Truthy(apiKey) /\ ~Truthy(apiSecret)) \/ (~Truthy(apiKey) /\ Truthy(apiSecret))
  THEN Throw(<<"Both ERPNEXT_API_KEY and ERPNEXT_API_SECRET must be provided if using API key authentication">>)
  ELSE Return(Undefined)

\* new Config(): the constructed object, or the Error it throws
Config(env) ==
  LET required == getRequiredEnv(env.url, "ERPNEXT_URL")
  IN IF ~required.ok
     THEN [ok |-> FALSE, message |-> required.message, erpnextUrl |-> <<>>,
           apiKey |-> Undefined, apiSecret |-> Undefined]
     ELSE LET erpnextUrl == removeTrailingSlash(required.value.s)
              valid == validate(erpnextUrl, env.apiKey, env.apiSecret)
          IN [ok |-> valid.ok, message |-> valid.message, erpnextUrl |-> erpnextUrl,
              apiKey |-> env.apiKey, apiSecret |-> env.apiSecret]

hasApiKeyAuth(config) == Truthy(config.apiKey) /\ Truthy(config.apiSecret)

\* the client object: its base URL and its authenticated flag
Client(ok, baseUrl, authenticated) ==
  [ok |-> ok, baseUrl |-> baseUrl, authenticated |-> authenticated]
NoClient == Client(FALSE, <<>>, FALSE)

\* new ERPNextClient(config, logger) of the HTTP entry point
ERPNextClient(config) ==
  Client(TRUE, config.erpnextUrl, Truthy(config.apiKey) /\ Truthy(config.apiSecret))

\* new ERPNextClient() of the stdio entry point, which reads process.env
\* itself: it throws only when ERPNEXT_URL is missing or empty
StdioERPNextClient(env) ==
  IF ~Truthy(env.url) THEN NoClient
  ELSE Client(TRUE, removeTrailingSlash(env.url.s),
              Truthy(env.apiKey) /\ Truthy(env.apiSecret))

isAuthenticated(client) == client.authenticated

\* ======================================================= upstream failures
\* ---- JSON.parse, for the texts a Frappe error body carries
\* A JSON text is a sequence of lexemes with insignificant white space left
\* out: "[", "]", "{", "}", ",", ":", "null", decimal digits, and a string
\* literal written as a quote token, the tokens of its content and a quote
\* token. Inside a string literal an escaped quote is one token. Arrays and
\* objects hold scalars only; a text outside this grammar is a SyntaxError.
Quote == "\""
EscapedQuote == "\\\""
ControlCharacters == {"\n", "\r", "\t"}

unescape(content) ==
  [i \in 1..Len(content) |-> IF content[i] = EscapedQuote THEN Quote ELSE content[i]]

SyntaxError == [ok |-> FALSE, ty |-> "undefined", items |-> <<>>, message |-> Undefined]
Parsed(ty, items, message) == [ok |-> TRUE, ty |-> ty, items |-> items, message |-> message]

NoScalar == [ok |-> FALSE, value |-> Undefined, next |-> 0]
Scalar(value, next) == [ok |-> TRUE, value |-> value, next |-> next]

\* the string literal, null or number that starts at t[i]
JSONscalar(t, i) ==
  LET quotes == {j \in (i + 1)..Len(t) : t[j] = Quote}
      closing == CHOOSE j \in quotes : \A k \in quotes : j <= k
      nonDigits == {j \in i..Len(t) : t[j] \notin Digits}
      end == IF nonDigits = {} THEN Len(t) + 1
             ELSE CHOOSE j \in nonDigits : \A k \in nonDigits : j <= k
  IN IF i > Len(t) THEN NoScalar
     ELSE IF t[i] = Quote
     THEN IF quotes = {} \/ \E k \in (i + 1)..(closing - 1) : t[k] \in ControlCharacters
          THEN NoScalar
          ELSE Scalar(Str(unescape(SubSeq(t, i + 1, closing - 1))), closing + 1)
     ELSE IF t[i] = "null" THEN Scalar(Null, i + 1)
     ELSE IF t[i] \in Digits
     THEN IF t[i] = "0" /\ end > i + 1 THEN NoScalar
          ELSE Scalar(Num(DigitsValue(SubSeq(t, i, end - 1)), 1), end)
     ELSE NoScalar

\* the elements of an array from t[i] on, up to the closing bracket that
\* ends the text
RECURSIVE JSONelements(_, _, _)
JSONelements(t, i, items) ==
  LET element == JSONscalar(t, i)
  IN IF ~element.ok \/ element.next > Len(t) THEN SyntaxError
     ELSE IF t[element.next] = "]" /\ element.next = Len(t)
     THEN Parsed("array", Append(items, element.value), Undefined)
     ELSE IF t[element.next] = ","
     THEN JSONelements(t, element.next + 1, Append(items, element.value))
     ELSE SyntaxError

\* the members of an object from t[i] on; message is the value of the last
\* member named "message"
RECURSIVE JSONmembers(_, _, _)
JSONmembers(t, i, message) ==
  LET key == JSONscalar(t, i)
      value == JSONscalar(t, key.next + 1)
      found == IF key.value.s = <<"message">> THEN value.value ELSE message
  IN IF ~key.ok \/ key.value.ty # "string" \/ key.next > Len(t) THEN SyntaxError
     ELSE IF t[key.next] # ":" \/ ~value.ok \/ value.next > Len(t) THEN SyntaxError
     ELSE IF t[value.next] = "}" /\ value.next = Len(t) THEN Parsed("object", <<>>, found)
     ELSE IF t[value.next] = "," THEN JSONmembers(t, value.next + 1, found)
     ELSE SyntaxError

JSONparse(t) ==
  LET scalar == JSONscalar(t, 1)
  IN IF t = <<>> THEN SyntaxError
     ELSE IF t = <<"[", "]">> THEN Parsed("array", <<>>, Undefined)
     ELSE IF t = <<"{", "}">> THEN Parsed("object", <<>>, Undefined)
     ELSE IF t[1] = "[" THEN JSONelements(t, 2, <<>>)
     ELSE IF t[1] = "{" THEN JSONmembers(t, 2, Undefined)
     ELSE IF scalar.ok /\ scalar.next = Len(t) + 1
     THEN Parsed(scalar.value.ty, <<>>, Undefined)
     ELSE SyntaxError

\* Array.prototype.join: null and undefined elements give the empty string
RECURSIVE join(_, _)
join(values, separator) ==
  LET first == IF Nullish(values[1]) THEN <<>> ELSE String(values[1])
  IN IF values = <<>> THEN <<>>
     ELSE IF Len(values) = 1 THEN first
     ELSE first \o separator \o join(Tail(values), separator)

\* String.prototype.split on a one-character separator
RECURSIVE split(_, _)
split(s, separator) ==
  LET at == {i \in 1..Len(s) : s[i] = separator}
      first == CHOOSE i \in at : \A j \in at : i <= j
  IN IF at = {} THEN <<s>>
     ELSE <<SubSeq(s, 1, first - 1)>> \o split(SubSeq(s, first + 1, Len(s)), separator)

\* String.prototype.substring(0, end)
substring(s, end) == SubSeq(s, 1, IF Len(s) < end THEN Len(s) ELSE end)

\* ---- the value a failed request rejects with
\* error.response of an AxiosError: status, statusText and data; data is a
\* JS value and field gives its five members the client reads (undefined
\* where the body has none, and for a body that is not an object)
BodyFields == {"_server_messages", "message", "exception", "exc", "exc_type"}
NoFields == [f \in BodyFields |-> Undefined]
Data(v, fields) == [ty |-> v.ty, s |-> v.s, n |-> v.n, d |-> v.d, field |-> fields @@ NoFields]
NoData == Data(Undefined, NoFields)
HttpResponse(status, statusText, data) ==
  [status |-> status, statusText |-> statusText, data |-> data]
\* no response: axiosError.response?.status and the others are undefined
NoHttpResponse == HttpResponse(Undefined, Undefined, NoData)

Failure(isAxiosError, isError, message, response) ==
  [isAxiosError |-> isAxiosError, isError |-> isError, message |-> message,
   response |-> response]
AxiosError(message, response) == Failure(TRUE, TRUE, Str(message), response)
Error(message) == Failure(FALSE, TRUE, Str(message), NoHttpResponse)
\* a thrown value that is not an Error and has no message
NotAnError == Failure(FALSE, FALSE, Undefined, NoHttpResponse)

\* ---- extractErrorDetails
MaxTracebackLength == 500

\* the callback of serverMessages.map: the message of the parsed element,
\* or the element itself when it does not parse (SyntaxError), parses to
\* null (TypeError on .message) or has no truthy message
serverMessage(msg) ==
  LET parsed == JSONparse(String(msg))
  IN IF ~parsed.ok \/ parsed.ty = "null" THEN msg
     ELSE IF Truthy(parsed.message) THEN parsed.message
     ELSE msg

\* a variant whose callback lets a failing element fail the whole parse
ServerMessagesAllOrNothing(field) ==
  LET serverMessages == JSONparse(String(field))
      failing == {i \in 1..Len(serverMessages.items) :
                    LET parsed == JSONparse(String(serverMessages.items[i]))
                    IN ~parsed.ok \/ parsed.ty = "null"}
  IN IF ~serverMessages.ok \/ serverMessages.ty # "array" \/ failing # {}
     THEN String(field)
     ELSE join([i \in 1..Len(serverMessages.items) |->
                  serverMessage(serverMessages.items[i])], <<"; ">>)

\* the _server_messages branch: the messages joined with "; ", or the raw
\* field when the outer JSON.parse throws or its result has no map()
ServerMessages(field) ==
  LET serverMessages == JSONparse(String(field))
  IN IF ~serverMessages.ok \/ serverMessages.ty # "array" THEN String(field)
     ELSE join([i \in 1..Len(serverMessages.items) |->
                  serverMessage(serverMessages.items[i])], <<"; ">>)

\* the exception branch: the last non-blank line unless it belongs to the
\* traceback, else the first 500 characters
Exception(field) ==
  LET exc == String(field)
      lines == SelectSeq(split(exc, "\n"), LAMBDA l : trim(l) # <<>>)
      lastLine == lines[Len(lines)]
  IN IF /\ lines # <<>>
        /\ ~startsWith(lastLine, <<"T", "r", "a", "c", "e", "b", "a", "c", "k">>)
        /\ ~startsWith(lastLine, <<" ", " ">>)
     THEN lastLine
     ELSE substring(exc, MaxTracebackLength)

\* parts after the status: `HTTP ${status}${statusText ? ` ${statusText}` : ''}`
HttpPart(response) ==
  IF Truthy(response.status)
  THEN <<Str(<<"HTTP ">> \o String(response.status)
             \o (IF Truthy(response.statusText)
                 THEN <<" ">> \o String(response.statusText) ELSE <<>>))>>
  ELSE <<>>

\* a variant that looks at message before _server_messages
BodyPartMessageFirst(responseData) ==
  LET field == responseData.field
  IN IF ~Truthy(responseData) THEN <<>>
     ELSE IF Truthy(field["message"]) THEN <<Str(String(field["message"]))>>
     ELSE IF Truthy(field["_server_messages"])
     THEN <<Str(ServerMessages(field["_server_messages"]))>>
     ELSE IF Truthy(field["exception"]) THEN <<Str(Exception(field["exception"]))>>
     ELSE IF Truthy(field["exc"])
     THEN <<Str(substring(String(field["exc"]), MaxTracebackLength))>>
     ELSE IF Truthy(field["exc_type"]) THEN <<Str(String(field["exc_type"]))>>
     ELSE <<>>

\* the if / else-if chain over the body: at most one part
BodyPart(responseData) ==
  LET field == responseData.field
  IN IF ~Truthy(responseData) THEN <<>>
     ELSE IF Truthy(field["_server_messages"])
     THEN <<Str(ServerMessages(field["_server_messages"]))>>
     ELSE IF Truthy(field["message"]) THEN <<Str(String(field["message"]))>>
     ELSE IF Truthy(field["exception"]) THEN <<Str(Exception(field["exception"]))>>
     ELSE IF Truthy(field["exc"])
     THEN <<Str(substring(String(field["exc"]), MaxTracebackLength))>>
     ELSE IF Truthy(field["exc_type"]) THEN <<Str(String(field["exc_type"]))>>
     ELSE <<>>

\* a variant that falls back to the axios message only when there is no
\* part at all
FallbackWhenEmpty(parts, axiosError) ==
  IF Len(parts) = 0 THEN Append(parts, axiosError.message) ELSE parts

\* if (parts.length === 0 || (parts.length === 1 && status)) push the message
Fallback(parts, axiosError) ==
  IF Len(parts) = 0 \/ (Len(parts) = 1 /\ Truthy(axiosError.response.status))
  THEN Append(parts, axiosError.message)
  ELSE parts

extractErrorDetails(error) ==
  IF ~error.isAxiosError
  THEN IF error.isError THEN String(error.message) ELSE <<"Unknown error">>
  ELSE join(Fallback(HttpPart(error.response) \o BodyPart(error.response.data), error),
            <<" - ">>)

\* the stdio entry point has no extractErrorDetails:
\* error?.message || 'Unknown error'
messageOrUnknown(error) ==
  IF Truthy(error.message) THEN String(error.message) ELSE <<"Unknown error">>


\* =========================================================== remote client
\* One upstream HTTP exchange as the client's method sees it: the request
\* resolves with a payload (response.data.data, .message or .results), or
\* it rejects and detail is the text the method derives from the failure
\* (extractErrorDetails(error); error?.message || 'Unknown error' in the
\* stdio entry point).
Resolved(data) == [ok |-> TRUE, data |-> data, detail |-> <<>>, error |-> NotAnError]
Rejected(error) ==
  [ok |-> FALSE, data |-> Undefined,
   detail |-> IF entry = "stdio" THEN messageOrUnknown(error)
              ELSE extractErrorDetails(error),
   error |-> error]

Request(method, path, params) == [method |-> method, path |-> path, params |-> params]

\* what a client method did: the requests it issued, the lines it logged,
\* and its return value or the Error it threw
Did(issued, logged, outcome) ==
  [requests |-> issued, logs |-> logged, ok |-> outcome.ok,
   value |-> outcome.value, message |-> outcome.message]

\* JSON.stringify(value) as a request parameter
JsonParam(name, v) == IF Truthy(v) THEN {<<name, <<"JSON">>>>} ELSE {}

getDocument(doctype, name, o) ==
  Did(<<Request("GET", <<"/api/resource/">> \o doctype \o <<"/">> \o name, {})>>, <<>>,
      IF o.ok THEN Return(o.data)
      ELSE Throw(<<"Failed to get ">> \o doctype \o <<" ">> \o name \o <<": ">> \o o.detail))

getDocList(doctype, filters, fields, limit, o) ==
  LET params == (IF fields.ty \in {"array", "string"} /\ fields.s # <<>> THEN {<<"fields", <<"JSON">>>>} ELSE {})
                \cup JsonParam("filters", filters)
                \cup (IF Truthy(limit) THEN {<<"limit_page_length", String(limit)>>} ELSE {})
  IN Did(<<Request("GET", <<"/api/resource/">> \o doctype, params)>>, <<>>,
         IF o.ok THEN Return(o.data)
         ELSE Throw(<<"Failed to get ">> \o doctype \o <<" list: ">> \o o.detail))

createDocument(doctype, doc, o) ==
  Did(<<Request("POST", <<"/api/resource/">> \o doctype, {})>>, <<>>,
      IF o.ok THEN Return(o.data)
      ELSE Throw(<<"Failed to create ">> \o doctype \o <<": ">> \o o.detail))

updateDocument(doctype, name, doc, o) ==
  Did(<<Request("PUT", <<"/api/resource/">> \o doctype \o <<"/">> \o name, {})>>, <<>>,
      IF o.ok THEN Return(o.data)
      ELSE Throw(<<"Failed to update ">> \o doctype \o <<" ">> \o name \o <<": ">> \o o.detail))

runReport(reportName, filters, o) ==
  Did(<<Request("GET", <<"/api/method/frappe.desk.query_report.run">>,
                {<<"report_name", reportName>>} \cup JsonParam("filters", filters))>>, <<>>,
      IF o.ok THEN Return(o.data)
      ELSE Throw(<<"Failed to run report ">> \o reportName \o <<": ">> \o o.detail))

CommonDocTypes ==
  Arr(<<"Customer", ",", "Supplier", ",", "Item", ",", "Sales Order", ",",
        "Purchase Order", ",", "Sales Invoice", ",", "Purchase Invoice", ",",
        "Employee", ",", "Lead", ",", "Opportunity", ",", "Quotation", ",",
        "Payment Entry", ",", "Journal Entry", ",", "Stock Entry">>)

\* one tier of getAllDocTypes: the list when the payload is an array, []
\* when it is falsy; .map on any other payload throws inside the try block,
\* as a rejected request does
Tier(o) == IF ~o.ok THEN Throw(o.detail)
           ELSE IF ~Truthy(o.data) THEN Return(Arr(<<>>))
           ELSE IF o.data.ty = "array" THEN Return(o.data)
           ELSE Throw(<<"response.data.data.map is not a function">>)

\* a listing that has the first tier only and throws when it fails
getAllDocTypesPrimaryOnly(o1, o2) ==
  Did(<<Request("GET", <<"/api/resource/DocType">>,
                {<<"fields", <<"JSON">>>>, <<"limit_page_length", <<"5", "0", "0">>>>})>>,
      <<>>, Tier(o1))

\* a listing without the built-in list: it throws when both tiers failed
getAllDocTypesNoFallback(o1, o2) ==
  LET primary == Request("GET", <<"/api/resource/DocType">>,
                         {<<"fields", <<"JSON">>>>, <<"limit_page_length", <<"5", "0", "0">>>>})
      search == Request("GET", <<"/api/method/frappe.desk.search.search_link">>,
                        {<<"doctype", <<"DocType">>>>, <<"txt", <<>>>>,
                         <<"limit", <<"5", "0", "0">>>>})
  IN IF Tier(o1).ok THEN Did(<<primary>>, <<>>, Tier(o1))
     ELSE Did(<<primary, search>>, <<"Failed to get DocTypes:">>, Tier(o2))

getAllDocTypes(o1, o2) ==
  LET primary == Request("GET", <<"/api/resource/DocType">>,
                         {<<"fields", <<"JSON">>>>, <<"limit_page_length", <<"5", "0", "0">>>>})
      search == Request("GET", <<"/api/method/frappe.desk.search.search_link">>,
                        {<<"doctype", <<"DocType">>>>, <<"txt", <<>>>>,
                         <<"limit", <<"5", "0", "0">>>>})
  IN IF Tier(o1).ok THEN Did(<<primary>>, <<>>, Tier(o1))
     ELSE IF Tier(o2).ok
     THEN Did(<<primary, search>>, <<"Failed to get DocTypes:">>, Tier(o2))
     ELSE Did(<<primary, search>>,
              <<"Failed to get DocTypes:", "Alternative DocType fetch failed:">>,
              Return(CommonDocTypes))

\* encodeURIComponent on the characters of the model: the unreserved ones
\* stay, the others become their percent code
PercentCode ==
  [c \in {" ", "/", "%", "\t", "\n"} |->
     CASE c = " " -> <<"%", "2", "0">>
       [] c = "/" -> <<"%", "2", "F">>
       [] c = "%" -> <<"%", "2", "5">>
       [] c = "\t" -> <<"%", "0", "9">>
       [] OTHER -> <<"%", "0", "A">>]

RECURSIVE encodeURIComponent(_)
encodeURIComponent(str) ==
  LET escaped == {i \in 1..Len(str) : str[i] \in DOMAIN PercentCode}
      first == CHOOSE i \in escaped : \A j \in escaped : i <= j
  IN IF escaped = {} THEN str
     ELSE SubSeq(str, 1, first - 1) \o PercentCode[str[first]]
          \o encodeURIComponent(SubSeq(str, first + 1, Len(str)))

getDocTypeFields(doctype, o) ==
  Did(<<Request("GET", <<"/api/resource/DocType/">> \o encodeURIComponent(doctype), {})>>,
      <<>>,
      IF ~o.ok THEN Throw(<<"Failed to get fields for ">> \o doctype \o <<": ">> \o o.detail)
      ELSE IF Truthy(o.data) /\ o.data.ty = "object" THEN Return(Arr(o.data.s))
      ELSE Return(Arr(<<>>)))

\* ================================================================ handlers
\* what a request handler hands back to the protocol layer: a tool result
\* ("result"), resource contents ("contents"), a thrown McpError with its
\* ErrorCode ("mcperror"), or any other thrown Error ("exception")
Response(kind, isError, code, text) ==
  [kind |-> kind, isError |-> isError, code |-> code, text |-> text]
NoResponse == Response("none", FALSE, "", Undefined)

errorResponse(message) == Response("result", TRUE, "", Str(message))
successResponse(text) == Response("result", FALSE, "", text)
McpError(code, message) == Response("mcperror", FALSE, code, Str(message))

\* JSON.stringify(value, null, 2): undefined for undefined, a string
\* otherwise; no handler reads the text it produces
JSONstringify(v) == IF v.ty = "undefined" THEN Undefined
                    ELSE Str(<<"JSON:", v.ty, ":">> \o v.s)

NotAuthenticated ==
  <<"Not authenticated with ERPNext. Please configure API key authentication.">>

\* a handler's run: its response, the upstream requests and the log lines
Handled(response, issued, logged) ==
  [response |-> response, requests |-> issued, logs |-> logged]

\* a catch block that prefixes the caught message twice
CaughtTwice(prefix, did, text) ==
  Handled(IF did.ok THEN successResponse(text)
          ELSE errorResponse(<<prefix, prefix>> \o did.message),
          did.requests, did.logs)

\* the client call of a tool handler inside its try block: a thrown Error
\* is caught and returned as errorResponse(`${prefix}${message}`)
Caught(prefix, did, text) ==
  Handled(IF did.ok THEN successResponse(text)
          ELSE errorResponse(<<prefix>> \o did.message),
          did.requests, did.logs)

\* a validation Error that escapes the handler
InvalidThrown(prefix, thrown) ==
  Handled(Response("exception", FALSE, "", Str(thrown.message)), <<>>, <<>>)

\* a validation Error caught by the same catch block
Invalid(prefix, thrown) == Handled(errorResponse(<<prefix>> \o thrown.message), <<>>, <<>>)

\* a checkAuth that lets every client through
checkAuthSkipped(client) == NoResponse

\* checkAuth: the error result, or null
checkAuth(client) ==
  IF ~isAuthenticated(client) THEN errorResponse(NotAuthenticated) ELSE NoResponse

handleGetDocuments(args, client, o) ==
  LET authError == checkAuth(client)
      doctype == validateIdentifier(args.doctype, "doctype")
      limit == validatePositiveInt(args.limit, "limit")
  IN IF authError # NoResponse THEN Handled(authError, <<>>, <<>>)
     ELSE IF ~doctype.ok THEN Invalid("Failed to get documents: ", doctype)
     ELSE IF ~limit.ok THEN Invalid("Failed to get documents: ", limit)
     ELSE LET documents == getDocList(doctype.value.s, args.filters, args.fields,
                                      limit.value, o)
          IN Caught("Failed to get documents: ", documents, JSONstringify(documents.value))

\* `Created ${doctype}: ${result.name}\n\n${JSON.stringify(result, null, 2)}`;
\* reading .name of undefined or null throws a TypeError inside the try block
Named(prefix, verb, subject, did) ==
  IF did.ok /\ Nullish(did.value)
  THEN Handled(errorResponse(<<prefix, "Cannot read properties of ", did.value.ty,
                               " (reading 'name')">>), did.requests, did.logs)
  ELSE Caught(prefix, did,
              Str(<<verb>> \o subject \o <<": ">>
                  \o (IF did.value.ty = "object" THEN did.value.s ELSE <<"undefined">>)
                  \o <<"\n\n">> \o String(JSONstringify(did.value))))

handleCreateDocument(args, client, o) ==
  LET authError == checkAuth(client)
      doctype == validateIdentifier(args.doctype, "doctype")
      data == validateObject(args.data, "data")
  IN IF authError # NoResponse THEN Handled(authError, <<>>, <<>>)
     ELSE IF ~doctype.ok THEN Invalid("Failed to create document: ", doctype)
     ELSE IF ~data.ok THEN Invalid("Failed to create document: ", data)
     ELSE Named("Failed to create document: ", "Created ", doctype.value.s,
                createDocument(doctype.value.s, data.value, o))

handleUpdateDocument(args, client, o) ==
  LET authError == checkAuth(client)
      doctype == validateIdentifier(args.doctype, "doctype")
      name == validateIdentifier(args.name, "name")
      data == validateObject(args.data, "data")
  IN IF authError # NoResponse THEN Handled(authError, <<>>, <<>>)
     ELSE IF ~doctype.ok THEN Invalid("Failed to update document: ", doctype)
     ELSE IF ~name.ok THEN Invalid("Failed to update document: ", name)
     ELSE IF ~data.ok THEN Invalid("Failed to update document: ", data)
     ELSE LET result == updateDocument(doctype.value.s, name.value.s, data.value, o)
          IN Caught("Failed to update document: ", result,
                    Str(<<"Updated ">> \o doctype.value.s \o <<" ">> \o name.value.s
                        \o <<"\n\n">> \o String(JSONstringify(result.value))))

handleRunReport(args, client, o) ==
  LET authError == checkAuth(client)
      reportName == validateIdentifier(args.report_name, "report_name")
  IN IF authError # NoResponse THEN Handled(authError, <<>>, <<>>)
     ELSE IF ~reportName.ok THEN Invalid("Failed to run report: ", reportName)
     ELSE LET result == runReport(reportName.value.s, args.filters, o)
          IN Caught("Failed to run report: ", result, JSONstringify(result.value))

handleGetDocTypeFields(args, client, o) ==
  LET authError == checkAuth(client)
      doctype == validateIdentifier(args.doctype, "doctype")
  IN IF authError # NoResponse THEN Handled(authError, <<>>, <<>>)
     ELSE IF ~doctype.ok THEN Invalid("Failed to get fields: ", doctype)
     ELSE LET fields == getDocTypeFields(doctype.value.s, o)
          IN Caught("Failed to get fields: ", fields, JSONstringify(fields.value))

handleGetDocTypes(client, o1, o2) ==
  LET authError == checkAuth(client)
      doctypes == getAllDocTypes(o1, o2)
  IN IF authError # NoResponse THEN Handled(authError, <<>>, <<>>)
     ELSE Caught("Failed to get DocTypes: ", doctypes, JSONstringify(doctypes.value))

Tools == {"get_doctypes", "get_doctype_fields", "get_documents",
          "create_document", "update_document", "run_report"}

\* the CallToolRequestSchema handler: switch (request.params.name)
CallToolRequest(name, args, client, o1, o2) ==
  CASE name = "get_documents" -> handleGetDocuments(args, client, o1)
    [] name = "create_document" -> handleCreateDocument(args, client, o1)
    [] name = "update_document" -> handleUpdateDocument(args, client, o1)
    [] name = "run_report" -> handleRunReport(args, client, o1)
    [] name = "get_doctype_fields" -> handleGetDocTypeFields(args, client, o1)
    [] name = "get_doctypes" -> handleGetDocTypes(client, o1, o2)
    [] OTHER -> Handled(McpError("MethodNotFound", <<"Unknown tool: ", name>>), <<>>, <<>>)

Scheme == <<"e", "r", "p", "n", "e", "x", "t", ":", "/", "/">>
DocTypesUri == Scheme \o <<"D", "o", "c", "T", "y", "p", "e", "s">>

\* uri.match(/^erpnext:\/\/([^\/]+)\/(.+)$/): the two groups, or no match
documentMatch(uri) ==
  LET rest == SubSeq(uri, Len(Scheme) + 1, Len(uri))
      slashes == {i \in 1..Len(rest) : rest[i] = "/"}
      first == CHOOSE i \in slashes : \A j \in slashes : i <= j
  IN IF /\ startsWith(uri, Scheme)
        /\ slashes # {}
        /\ first > 1 /\ first < Len(rest)
        /\ \A j \in (first + 1)..Len(rest) : rest[j] \notin {"\n", "\r"}
     THEN [matched |-> TRUE, doctype |-> SubSeq(rest, 1, first - 1),
           name |-> SubSeq(rest, first + 1, Len(rest))]
     ELSE [matched |-> FALSE, doctype |-> <<>>, name |-> <<>>]

\* the characters decodeURIComponent yields for the percent codes of the
\* model; any other "%" of the model's inputs is a malformed sequence
PercentDecode ==
  [code \in {<<"2", "0">>, <<"2", "F">>, <<"2", "5">>, <<"0", "9">>, <<"0", "A">>} |->
     CHOOSE c \in DOMAIN PercentCode : PercentCode[c] = <<"%">> \o code]

\* decodeURIComponent: the decoded string, or a thrown URIError
RECURSIVE decodeURIComponent(_)
decodeURIComponent(str) ==
  LET percents == {i \in 1..Len(str) : str[i] = "%"}
      first == CHOOSE i \in percents : \A j \in percents : i <= j
      code == SubSeq(str, first + 1, first + 2)
      rest == decodeURIComponent(SubSeq(str, first + 3, Len(str)))
  IN IF percents = {} THEN Return(Str(str))
     ELSE IF first + 2 > Len(str) \/ code \notin DOMAIN PercentDecode
     THEN Throw(<<"URI malformed">>)
     ELSE IF ~rest.ok THEN rest
     ELSE Return(Str(SubSeq(str, 1, first - 1) \o <<PercentDecode[code]>> \o rest.value.s))

\* an authentication check that answers with contents instead of throwing
ReadResourceAuthContents(client) ==
  IF ~isAuthenticated(client) THEN Response("contents", TRUE, "", Str(NotAuthenticated))
  ELSE NoResponse

\* the authentication check of the ReadResourceRequestSchema handler
ReadResourceAuth(client) ==
  IF ~isAuthenticated(client) THEN McpError("InvalidRequest", NotAuthenticated)
  ELSE NoResponse

\* contents returned whatever the result is
ContentsAlways(uri, result, issued, logged) ==
  Handled(Response("contents", FALSE, "", JSONstringify(result)), issued, logged)

\* the contents returned for a result, or the error for a falsy one
Contents(uri, result, issued, logged) ==
  Handled(IF ~Truthy(result)
          THEN McpError("InvalidRequest", <<"Invalid ERPNext resource URI: ">> \o uri)
          ELSE Response("contents", FALSE, "", JSONstringify(result)),
          issued, logged)

\* the ReadResourceRequestSchema handler
ReadResourceRequest(uri, client, o1, o2) ==
  LET authError == ReadResourceAuth(client)
      m == documentMatch(uri)
      doctype == decodeURIComponent(m.doctype)
      name == decodeURIComponent(m.name)
  IN IF authError # NoResponse THEN Handled(authError, <<>>, <<>>)
     ELSE IF uri = DocTypesUri
     THEN LET doctypes == getAllDocTypes(o1, o2)
          IN IF doctypes.ok
             THEN Contents(uri, Obj(doctypes.value.s), doctypes.requests, doctypes.logs)
             ELSE Handled(McpError("InternalError",
                                   <<"Failed to fetch DocTypes: ">> \o doctypes.message),
                          doctypes.requests, doctypes.logs)
     ELSE IF ~m.matched THEN Contents(uri, Undefined, <<>>, <<>>)
     ELSE IF ~doctype.ok
     THEN Handled(Response("exception", FALSE, "", Str(doctype.message)), <<>>, <<>>)
     ELSE IF ~name.ok
     THEN Handled(Response("exception", FALSE, "", Str(name.message)), <<>>, <<>>)
     ELSE LET result == getDocument(doctype.value.s, name.value.s, o1)
          IN IF result.ok THEN Contents(uri, result.value, result.requests, result.logs)
             ELSE Handled(McpError("InvalidRequest",
                                   <<"Failed to fetch ">> \o doctype.value.s \o <<" ">>
                                   \o name.value.s \o <<": ">> \o result.message),
                          result.requests, result.logs)

\* ============================================== the two specifications
Call(kind, name, uri, args) == [kind |-> kind, name |-> name, uri |-> uri, args |-> args]
NoCall == Call("none", "", <<>>, <<>>)

Arguments(doctype, name, data, report_name, filters, fields, limit) ==
  [doctype |-> doctype, name |-> name, data |-> data, report_name |-> report_name,
   filters |-> filters, fields |-> fields, limit |-> limit]

HttpUrl == <<"h", "t", "t", "p", ":", "/", "/", "e", "r", "p">>

\* the HTTP server after a successful start with both credentials set
ServingEnv == Env(Str(HttpUrl), Str(<<"k">>), Str(<<"s">>))

Init ==
  /\ SessionInit
  /\ entry = "http"
  /\ processEnv = ServingEnv
  /\ erpnext = ERPNextClient(Config(ServingEnv))
  /\ call = NoCall
  /\ reply = NoResponse
  /\ upstream = <<>>
  /\ logs = <<>>
  /\ outcomes = <<>>

Headers == {None} \cup SessionIds

Next ==
  \/ \E sid \in Headers, init \in BOOLEAN : PostMcp(sid, init)
  \/ \E r \in InFlight, ok \in BOOLEAN : PostConnect(r, ok)
  \/ \E r \in InFlight, o \in {"ok", "late", "refused", "throw"} :
       TransportInitialize(r, o)
  \/ \E sid \in Headers : GetMcp(sid)
  \/ \E sid \in Headers : DeleteMcp(sid)
  \/ \E r \in InFlight, o \in {"ok", "refused", "throw"} : TransportTerminate(r, o)
  \/ \E t \in TransportIds : TransportClose(t)
  \/ Sigint
  \/ Sigterm
  \/ \E h \in InFlight, ok \in BOOLEAN : ShutdownResume(h, ok)

Spec == Init /\ [][Next]_vars


\* ------------------------------------------------ startup and handler calls
EnvUrls == {Undefined, Str(<<>>), Str(<<"/">>), Str(<<"e", "r", "p">>), Str(HttpUrl),
            Str(HttpUrl \o <<"/">>)}
EnvSecrets == {Undefined, Str(<<>>), Str(<<"k">>)}

HandlerInit ==
  /\ SessionInit
  /\ entry \in {"http", "stdio"}
  /\ processEnv \in {Env(url, apiKey, apiSecret) :
                url \in EnvUrls, apiKey \in EnvSecrets, apiSecret \in EnvSecrets}
  /\ erpnext = NoClient
  /\ call = NoCall
  /\ reply = NoResponse
  /\ upstream = <<>>
  /\ logs = <<>>
  /\ outcomes = <<>>

\* http-server.ts: try { new Config(); new ERPNextClient(config, logger) }
\* catch { process.exit(1) }
StartHttp ==
  /\ entry = "http"
  /\ IF Config(processEnv).ok
     THEN erpnext' = ERPNextClient(Config(processEnv)) /\ exited' = exited
     ELSE erpnext' = erpnext /\ exited' = 1

\* index.ts: const erpnext = new ERPNextClient() at module level; an Error
\* thrown there is uncaught and ends the process with exit code 1
StartStdio ==
  /\ entry = "stdio"
  /\ IF StdioERPNextClient(processEnv).ok
     THEN erpnext' = StdioERPNextClient(processEnv) /\ exited' = exited
     ELSE erpnext' = erpnext /\ exited' = 1

Start ==
  /\ Running /\ erpnext = NoClient
  /\ StartHttp \/ StartStdio
  /\ UNCHANGED <<sessionVars, entry, processEnv, call, reply, upstream, logs, outcomes>>

Serving == Running /\ erpnext # NoClient

\* one protocol request is handed to its handler, which runs to its return
\* or throw
Handle(c, h, os) ==
  /\ call = NoCall
  /\ call' = c
  /\ outcomes' = os
  /\ reply' = h.response
  /\ upstream' = h.requests
  /\ logs' = h.logs
  /\ UNCHANGED <<httpVars, entry, processEnv, erpnext>>

CallTool(name, args, o1, o2) ==
  /\ Serving
  /\ Handle(Call("tool", name, <<>>, args), CallToolRequest(name, args, erpnext, o1, o2),
            <<o1, o2>>)

ReadResource(uri, o1, o2) ==
  /\ Serving
  /\ Handle(Call("resource", "", uri, <<>>), ReadResourceRequest(uri, erpnext, o1, o2),
            <<o1, o2>>)

\* the value the handler returned, or the error it threw, goes back to the
\* protocol server, which sends it to the caller; the handler keeps nothing
Respond ==
  /\ Serving
  /\ call # NoCall
  /\ call' = NoCall
  /\ reply' = NoResponse
  /\ upstream' = <<>>
  /\ logs' = <<>>
  /\ outcomes' = <<>>
  /\ UNCHANGED <<httpVars, entry, processEnv, erpnext>>

\* the inputs of the calls
Long(n) == [i \in 1..n |-> "a"]

ShortIdentifiers ==
  {Undefined, Null, Str(<<>>), Str(<<" ", "\t">>),
   Str(<<" ", "S", "a", "l", "e", "s", " ", "O", "r", "d", "e", "r", " ">>),
   Str(<<"a", "/", "b">>), Str(<<"a", "\t", "b">>), Num(42, 1), Obj(<<>>),
   Str(<<"\t", "I", "t", "e", "m", "\n">>)}
\* identifiers at the length limit
LongIdentifiers ==
  {Str(Long(MAX_IDENTIFIER_LENGTH)), Str(Long(MAX_IDENTIFIER_LENGTH + 1)),
   Str(Long(MAX_IDENTIFIER_LENGTH) \o <<"/">>),
   Str(<<" ">> \o Long(MAX_IDENTIFIER_LENGTH)),
   Str([i \in 1..MAX_IDENTIFIER_LENGTH |-> " "])}
IdentifierValues == ShortIdentifiers \cup LongIdentifiers
NameValues == {Undefined, Str(<<"S", "O", "-", "1">>), Str(<<".", ".", "/", "x">>)}
DataValues == {Undefined, Obj(<<"S", "O", "-", "1">>), Arr(<<>>), Str(<<"x">>)}
LimitValues == {Undefined, Null, Num(5, 1), Num(0, 1), Num(0 - 5, 1), Num(35, 10),
                Str(<<"5", "0">>), Str(<<"a">>)}
FilterValues == {Undefined, Obj(<<>>)}

NoArguments ==
  Arguments(Undefined, Undefined, Undefined, Undefined, Undefined, Undefined, Undefined)

\* the argument records of a tool: every combination of the short values,
\* and the long identifiers with the other arguments valid
ToolArguments(name) ==
  CASE name = "get_documents" ->
         {[NoArguments EXCEPT !.doctype = d, !.limit = l] :
            d \in ShortIdentifiers, l \in LimitValues}
         \cup {[NoArguments EXCEPT !.doctype = d] : d \in LongIdentifiers}
    [] name = "create_document" ->
         {[NoArguments EXCEPT !.doctype = d, !.data = x] :
            d \in ShortIdentifiers, x \in DataValues}
         \cup {[NoArguments EXCEPT !.doctype = d, !.data = Obj(<<"S", "O", "-", "1">>)] :
                 d \in LongIdentifiers}
    [] name = "update_document" ->
         {[NoArguments EXCEPT !.doctype = d, !.name = n, !.data = x] :
            d \in ShortIdentifiers, n \in NameValues, x \in DataValues}
         \cup {[NoArguments EXCEPT !.doctype = d, !.name = Str(<<"S", "O", "-", "1">>),
                                   !.data = Obj(<<"S", "O", "-", "1">>)] :
                 d \in LongIdentifiers}
    [] name = "run_report" ->
         {[NoArguments EXCEPT !.report_name = d, !.filters = f] :
            d \in IdentifierValues, f \in FilterValues}
    [] name = "get_doctype_fields" ->
         {[NoArguments EXCEPT !.doctype = d] : d \in IdentifierValues}
    [] OTHER -> {NoArguments}

ToolNames == Tools \cup {"delete_document"}

Uris ==
  {DocTypesUri,
   Scheme \o <<"I", "t", "e", "m", "/", "I", "-", "1">>,
   Scheme \o <<"I", "t", "e", "m">>,
   Scheme \o <<"/", "x">>,
   Scheme \o <<"a", "%", "2", "0", "b", "/", "x", "%", "2", "F", "y">>,
   Scheme \o <<"a", "/", "%">>,
   Scheme \o <<".", ".", "/", "x", "/", "y">>,
   <<"h", "t", "t", "p", ":", "/", "/", "a", "/", "b">>}

\* ---- failures of the upstream request
\* JSON texts as Frappe writes them into _server_messages: an array of
\* string literals, each holding the JSON text of one message object
Quoted(text) ==
  <<Quote>> \o [i \in 1..Len(text) |-> IF text[i] = Quote THEN EscapedQuote ELSE text[i]]
  \o <<Quote>>
MessageObject(key, text) == <<"{", Quote, key, Quote, ":", Quote, text, Quote, "}">>
ArrayText(first, second) == <<"[">> \o first \o <<",">> \o second \o <<"]">>

ServerMessagesValues ==
  {Str(<<"[">> \o Quoted(MessageObject("message", "Bad")) \o <<"]">>),
   Str(ArrayText(Quoted(MessageObject("message", "Bad")),
                 Quoted(MessageObject("message", "Worse")))),
   Str(ArrayText(Quoted(MessageObject("message", "Bad")), Quoted(<<"oops">>))),
   Str(ArrayText(Quoted(MessageObject("title", "x")), <<"null">>)),
   Str(<<"[">> \o Quoted(<<"null">>) \o <<"]">>),
   Str(<<"[">> \o Quoted(<<>>) \o <<"]">>),
   Str(<<"[", "]">>),
   Str(<<"[">> \o Quoted(MessageObject("message", "Bad"))),
   Str(<<"oops">>),
   Str(MessageObject("message", "Bad")),
   Num(5, 1)}

TracebackText == <<"T", "r", "a", "c", "e", "b", "a", "c", "k", "\n", " ", " ", "f", "\n">>
ExceptionValues ==
  {Str(TracebackText \o <<"E", ":", " ", "B", "a", "d", "\n">>),
   Str(TracebackText),
   Str(<<" ", "\n">>),
   Str(<<"T", "r", "a", "c", "e", "b", "a", "c", "k">> \o Long(MaxTracebackLength))}

Only(name, v) == Data(Obj(<<>>), name :> v)

Bodies ==
  {NoData, Data(Str(<<"<html>">>), NoFields), Data(Str(<<>>), NoFields), Data(Obj(<<>>), NoFields)}
  \cup {Only("_server_messages", v) : v \in ServerMessagesValues}
  \cup {Only("exception", v) : v \in ExceptionValues}
  \cup {Only("message", Str(<<"Not permitted">>)), Only("message", Obj(<<>>)),
        Only("exc", Str(Long(MaxTracebackLength + 1))),
        Only("exc_type", Str(<<"ValidationError">>)),
        Data(Obj(<<>>), [f \in BodyFields |-> Str(<<f>>)]),
        Data(Obj(<<>>), [NoFields EXCEPT !["message"] = Str(<<"Not permitted">>),
                                         !["exc_type"] = Str(<<"PermissionError">>)]),
        Data(Obj(<<>>), [NoFields EXCEPT !["_server_messages"] = Str(<<"[", "]">>),
                                         !["message"] = Str(<<"Not permitted">>)]),
        Data(Obj(<<>>), [NoFields EXCEPT !["message"] = Str(<<>>),
                                         !["exception"] = Str(<<"E">>),
                                         !["exc"] = Str(<<"x">>)]),
        Data(Obj(<<>>), [NoFields EXCEPT !["exc"] = Str(<<"x">>),
                                         !["exc_type"] = Str(<<"ValidationError">>)])}

StatusLines == {<<Num(404, 1), Str(<<"Not Found">>)>>, <<Num(500, 1), Str(<<>>)>>}

RequestFailed(status) == <<"Request failed with status code ">> \o String(status)

NetworkError == AxiosError(<<"Network Error">>, NoHttpResponse)

Errors ==
  {AxiosError(RequestFailed(line[1]), HttpResponse(line[1], line[2], data)) :
     line \in StatusLines, data \in Bodies}
  \cup {NetworkError, AxiosError(<<>>, NoHttpResponse),
        Error(<<"boom">>), Error(<<>>), NotAnError}

Outcomes ==
  {Resolved(Obj(<<"S", "O", "-", "1">>)), Resolved(Undefined),
   Resolved(Arr(<<"Item">>)), Rejected(NetworkError)}

\* the outcomes of the two requests of a metadata listing
ListingFailures ==
  {NetworkError, Error(<<>>), NotAnError,
   AxiosError(RequestFailed(Num(404, 1)),
              HttpResponse(Num(404, 1), Str(<<"Not Found">>),
                           Data(Str(<<"<html>">>), NoFields))),
   AxiosError(RequestFailed(Num(500, 1)),
              HttpResponse(Num(500, 1), Str(<<>>),
                           Only("exception", Str(TracebackText))))}
ListingOutcomes == Outcomes \cup {Rejected(error) : error \in ListingFailures}

\* no request is being handled
Idle == Serving /\ call = NoCall

HandlerNext ==
  \/ Start
  \/ Idle /\ \E name \in ToolNames \ {"get_doctypes"} : \E args \in ToolArguments(name) :
               \E o \in Outcomes : CallTool(name, args, o, o)
  \/ Idle /\ \E o1, o2 \in ListingOutcomes :
               CallTool("get_doctypes", NoArguments, o1, o2)
  \/ Idle /\ \E uri \in Uris \ {DocTypesUri}, o1, o2 \in Outcomes :
               ReadResource(uri, o1, o2)
  \/ Idle /\ \E o1, o2 \in ListingOutcomes : ReadResource(DocTypesUri, o1, o2)
  \/ Idle /\ \E error \in Errors :
               CallTool("get_doctype_fields",
                        [NoArguments EXCEPT !.doctype = Str(<<"I", "t", "e", "m">>)],
                        Rejected(error), Rejected(error))
  \/ Respond

HandlerSpec == HandlerInit /\ [][HandlerNext]_vars

\* ======================================================== session claims
Arrival == {"POST", "GET", "DELETE"}

\* C1: the only mutations of the session map are the insertion of an id that
\* is not mapped and the deletion of one that is; a mapped id is never
\* rebound to another transport, and no id ever held two transports
C1_InsertOrDeleteOnly ==
  [][/\ \A id \in SessionIds :
          transports[id] # None /\ transports'[id] # None
            => transports'[id] = transports[id]
     /\ \A id \in SessionIds : Cardinality(registered'[id]) <= 1]_vars

C1_Witness ==
  /\ Cardinality(Live(transports)) = 1
  /\ removed # {}
  /\ event.op = "initialize" /\ event.status = 200

\* C2: a session enters the map only through an initialize POST that carried
\* no session id: its id was never produced before, its transport was never
\* initialized or mapped before and has a protocol server of its own, and
\* once the transport reports the session initialized the pairing
\* id -> transport is in the map
C2_InitializeCreatesSession ==
  [][/\ \A id \in SessionIds :
          transports[id] = None /\ transports'[id] # None
            => LET t == transports'[id]
               IN /\ id \notin usedIds /\ id \notin removed
                  /\ \E r \in InFlight : /\ r.kind = "POST" /\ r.sid = None
                                         /\ r.pc = "handleInit" /\ r.t = t
                  /\ sessionIdOf[t] = None /\ sessionIdOf'[t] = id
                  /\ \A id2 \in SessionIds : t \notin registered[id2]
                  /\ serverOf[t] # None
                  /\ \A t2 \in TransportIds \ {t} : serverOf[t2] # serverOf[t]
     /\ event'.op = "initialize" /\ event'.sid # None
          => /\ transports'[event'.sid] = event'.t
             /\ event'.sid \notin usedIds
     /\ event'.op = "POST" /\ event'.sid = None /\ event'.init
          => /\ event'.t = nextTransport' /\ nextTransport' = nextTransport + 1
             /\ nextServer' > nextServer /\ serverOf'[event'.t] = nextServer'
             /\ transports' = transports]_vars

C2_Witness ==
  /\ event.op = "initialize" /\ event.status = 200
  /\ Cardinality(Live(transports)) = 2

\* C3: a POST whose session id is in the map is handled by the transport
\* mapped to that id; no transport or protocol server is constructed and the
\* map is unchanged
C3_KnownSessionReusesTransport ==
  [][event'.op = "POST" /\ event'.sid \in Live(transports)
       => /\ event'.t = transports[event'.sid]
          /\ sessionIdOf[event'.t] = event'.sid
          /\ UNCHANGED <<transports, nextTransport, nextServer, serverOf,
                         sessionIdOf, requests>>]_vars

C3_Witness ==
  /\ event.op = "POST" /\ event.sid # None /\ event.t # None
  /\ event.status = 200
  /\ Cardinality(Live(transports)) = 2

\* C4: a non-initializing POST, a GET or a DELETE whose session id header is
\* missing or not in the map is answered 400 (the POST with JSON-RPC code
\* -32000), no transport handles it and the map is unchanged
C4_UnknownSessionRejected ==
  [][(/\ event'.op \in Arrival
      /\ event'.sid \notin Live(transports)
      /\ ~(event'.op = "POST" /\ event'.init))
       => /\ event'.status = 400
          /\ event'.op = "POST" => event'.code = -32000
          /\ event'.t = None
          /\ UNCHANGED <<transports, requests, nextTransport, sessionIdOf>>]_vars

C4_Witness ==
  /\ event.op = "DELETE" /\ event.status = 400
  /\ event.sid # None /\ event.sid \notin usedIds
  /\ Live(transports) # {}

\* C5: while an initialized session is in the map a GET with its id is handed
\* to its transport; once a DELETE for the id has been processed the id is
\* out of the map, it never returns, and every GET with it is answered 400
C5_Lifecycle ==
  [][/\ event'.op = "GET"
          => IF event'.sid \in Live(transports)
             THEN /\ event'.t = transports[event'.sid]
                  /\ sessionIdOf[event'.t] = event'.sid
                  /\ event'.status # 400
             ELSE event'.status = 400 /\ event'.t = None
     /\ event'.op = "terminate" /\ event'.status = 200
          => transports'[event'.sid] = None /\ event'.sid \in removed'
     /\ event'.op = "initialize" /\ event'.sid # None
          => transports'[event'.sid] = event'.t
     /\ removed' \cap Live(transports') = {}]_vars

C5_Witness ==
  /\ event.op = "GET" /\ event.status = 400
  /\ event.sid \in removed
  /\ Live(transports) # {}

\* a step that closes, once more, a session that is already out of the map:
\* a DELETE arriving for its id, a DELETE of it settling in its transport,
\* its transport's onclose, or the shutdown loop returning from its close()
ClosesAgain ==
  \/ event'.op \in {"DELETE", "terminate", "onclose"} /\ event'.sid \in removed
  \/ \E h \in InFlight, ok \in BOOLEAN :
       h.kind = "SIGINT" /\ h.sid \in removed /\ ShutdownResume(h, ok)

\* C6 as stated: closing a closed session again does not error (the status
\* is the one the server's own handler writes; what a transport answers to
\* a DELETE it was handed is the transport's) and leaves the map as it was
C6_SecondCloseDoesNotError ==
  [][ClosesAgain
       => /\ transports' = transports
          /\ event'.op # "terminate" => event'.status < 400]_vars

\* C6 as amended: closing a closed session again changes no entry of the
\* map; a repeated callback or a close() of it is a no-op, and a repeated
\* DELETE for its id is answered 400 by the handler without reaching a
\* transport
C6_SecondCloseIsNoOp ==
  [][ClosesAgain
       => /\ transports' = transports
          /\ event'.op = "DELETE" => event'.status = 400 /\ event'.t = None
          /\ event'.op = "onclose" => event'.status = 0]_vars

C6_Witness ==
  /\ event.op = "DELETE" /\ event.status = 400 /\ event.t = None
  /\ event.sid \in removed
  /\ Live(transports) # {}

\* C7 as stated: when the shutdown handler exits the process, close() has
\* been called on the transport of every session in the map
C7_ShutdownClosesEverySession ==
  exited = 0 => \A id \in Live(transports) : transports[id] \in closeCalled

\* C8: every request accepted for a session id is handled by the one
\* transport ever registered for it, so two requests with the same id are
\* never with two transports
C8_OneTransportPerSession ==
  /\ \A id \in SessionIds : Cardinality(registered[id]) <= 1
  /\ \A r \in InFlight : r.kind # "SIGINT" /\ r.sid # None
                           => registered[r.sid] = {r.t}
  /\ \A r1, r2 \in InFlight :
       (r1.kind # "SIGINT" /\ r2.kind # "SIGINT" /\ r1.sid = r2.sid /\ r1.sid # None)
         => r1.t = r2.t
  /\ event.op \in Arrival /\ event.sid # None /\ event.t # None
       => registered[event.sid] = {event.t}

C8_Witness ==
  /\ requests # EmptyBag
  /\ \E r \in InFlight : r.kind = "DELETE" /\ requests[r] = 2
  /\ event.op = "DELETE" /\ event.t # None

\* ======================================================== handler claims
\* C9: an unauthenticated call of any of the six tools returns the tool
\* result { isError: true, text: "Not authenticated ..." }, whatever the
\* arguments (valid or not: no validation message appears), and issues no
\* upstream request
C9_UnauthenticatedToolCall ==
  (call.kind = "tool" /\ call.name \in Tools /\ ~isAuthenticated(erpnext))
    => /\ reply = errorResponse(NotAuthenticated)
       /\ reply.kind = "result" /\ reply.isError
       /\ upstream = <<>>

C9_Witness ==
  /\ call.kind = "tool" /\ call.name = "update_document"
  /\ ~isAuthenticated(erpnext)
  /\ ~validateIdentifier(call.args.doctype, "doctype").ok
  /\ reply.isError /\ upstream = <<>>

Validations(name, args) ==
  CASE name = "get_documents" ->
         <<validateIdentifier(args.doctype, "doctype"),
           validatePositiveInt(args.limit, "limit")>>
    [] name = "create_document" ->
         <<validateIdentifier(args.doctype, "doctype"), validateObject(args.data, "data")>>
    [] name = "update_document" ->
         <<validateIdentifier(args.doctype, "doctype"),
           validateIdentifier(args.name, "name"), validateObject(args.data, "data")>>
    [] name = "run_report" -> <<validateIdentifier(args.report_name, "report_name")>>
    [] name = "get_doctype_fields" -> <<validateIdentifier(args.doctype, "doctype")>>
    [] OTHER -> <<>>

FailedValidations(name, args) ==
  {i \in DOMAIN Validations(name, args) : ~Validations(name, args)[i].ok}

\* a known tool called by an authenticated client
AuthenticatedToolCall ==
  call.kind = "tool" /\ call.name \in Tools /\ isAuthenticated(erpnext)

\* C11: when a known tool is called by an authenticated client and one of its
\* argument validations fails, the handler returns a tool result with
\* isError true whose text ends with the message of the first validation
\* that failed; nothing is thrown to the protocol layer and no upstream
\* request is issued
C11_ValidationFailureIsToolError ==
  (AuthenticatedToolCall /\ FailedValidations(call.name, call.args) # {})
    => LET failed == FailedValidations(call.name, call.args)
           first == CHOOSE i \in failed : \A j \in failed : i <= j
           message == Validations(call.name, call.args)[first].message
       IN /\ reply.kind = "result" /\ reply.isError
          /\ reply.text.ty = "string"
          /\ SubSeq(reply.text.s, 2, Len(reply.text.s)) = message
          /\ upstream = <<>>

C11_Witness ==
  /\ AuthenticatedToolCall /\ call.name = "update_document"
  /\ validateIdentifier(call.args.doctype, "doctype").ok
  /\ ~validateIdentifier(call.args.name, "name").ok
  /\ ~validateObject(call.args.data, "data").ok
  /\ reply.kind = "result" /\ reply.isError /\ upstream = <<>>

\* C12: a tool call whose name is not in the catalog is answered by the
\* thrown McpError MethodNotFound "Unknown tool: <name>", whoever calls; a
\* resource read whose URI is neither erpnext://DocTypes nor matched as
\* erpnext://{doctype}/{name} is answered by a thrown McpError InvalidRequest,
\* which for an authenticated client is "Invalid ERPNext resource URI: <uri>"
\* (an unauthenticated read is refused by the authentication check, also an
\* InvalidRequest); neither returns a result nor issues an upstream request
C12_MalformedRequestIsProtocolError ==
  /\ (call.kind = "tool" /\ call.name \notin Tools)
       => /\ reply = McpError("MethodNotFound", <<"Unknown tool: ", call.name>>)
          /\ upstream = <<>>
  /\ (call.kind = "resource" /\ call.uri # DocTypesUri /\ ~documentMatch(call.uri).matched)
       => /\ reply.kind = "mcperror" /\ reply.code = "InvalidRequest"
          /\ upstream = <<>>
          /\ isAuthenticated(erpnext)
               => reply = McpError("InvalidRequest",
                                   <<"Invalid ERPNext resource URI: ">> \o call.uri)

C12_Witness ==
  /\ call.kind = "resource" /\ isAuthenticated(erpnext)
  /\ startsWith(call.uri, Scheme) /\ call.uri # DocTypesUri
  /\ ~documentMatch(call.uri).matched
  /\ reply.kind = "mcperror" /\ upstream = <<>>

\* the call reached a Remote Client method: a known tool with valid
\* arguments, or a resource read of erpnext://DocTypes or of a document URI
\* whose two parts decode, by an authenticated client
ReachesClient ==
  \/ AuthenticatedToolCall /\ FailedValidations(call.name, call.args) = {}
  \/ /\ call.kind = "resource" /\ isAuthenticated(erpnext)
     /\ \/ call.uri = DocTypesUri
        \/ /\ documentMatch(call.uri).matched
           /\ decodeURIComponent(documentMatch(call.uri).doctype).ok
           /\ decodeURIComponent(documentMatch(call.uri).name).ok

\* the method it reached raised: every method but getAllDocTypes raises
\* exactly when its upstream request fails
ClientRaised ==
  /\ ~(call.kind = "tool" /\ call.name = "get_doctypes")
  /\ ~(call.kind = "resource" /\ call.uri = DocTypesUri)
  /\ ~outcomes[1].ok

ErrorPath ==
  \/ reply.kind \in {"mcperror", "exception"}
  \/ reply.kind = "result" /\ reply.isError

\* C13 as stated: a call that reached a client method is reported through
\* an error path exactly when the method raised: a raised failure is an
\* error-flagged result for a tool and a thrown McpError for a resource
\* read, and a call whose method returned is never reported as an error
C13_ErrorPathIffClientFailure ==
  ReachesClient
    => /\ ClientRaised
            => IF call.kind = "tool" THEN reply.kind = "result" /\ reply.isError
               ELSE reply.kind = "mcperror"
       /\ ~ClientRaised => ~ErrorPath

\* the "Failed to ..." prefixes: those the client methods put before the
\* upstream detail, and those the handlers put before a caught message
ClientWrappers ==
  {"Failed to get ", "Failed to create ", "Failed to update ",
   "Failed to run report ", "Failed to get fields for "}
HandlerWrappers ==
  {"Failed to get documents: ", "Failed to create document: ",
   "Failed to update document: ", "Failed to run report: ", "Failed to get fields: ",
   "Failed to get DocTypes: ", "Failed to fetch ", "Failed to fetch DocTypes: "}

Wrappers(text, among) == {i \in 1..Len(text) : text[i] \in among}

\* the detail of the failed upstream request ends the text
EndsWith(text, detail) ==
  Len(text) >= Len(detail)
  /\ SubSeq(text, Len(text) - Len(detail) + 1, Len(text)) = detail

\* C14 as stated: the text returned for a failed upstream request carries at
\* most one "Failed to ..." prefix
C14_WrappedAtMostOnce ==
  (ReachesClient /\ ClientRaised)
    => Cardinality(Wrappers(reply.text.s, ClientWrappers \cup HandlerWrappers)) <= 1

\* C14 as amended: the text returned for a failed upstream request is the
\* handler's prefix, then the client method's prefix, then the upstream
\* detail once: the client wraps the detail once and the handler re-wraps
\* the client's message once, two "Failed to ..." prefixes in all
C14_WrappedOnceByClientOnceByHandler ==
  (ReachesClient /\ ClientRaised)
    => /\ reply.text.ty = "string"
       /\ Wrappers(reply.text.s, HandlerWrappers) = {1}
       /\ Cardinality(Wrappers(reply.text.s, ClientWrappers)) = 1
       /\ \A i \in Wrappers(reply.text.s, ClientWrappers) : i > 1
       /\ EndsWith(reply.text.s, outcomes[1].detail)
       /\ outcomes[1].detail # <<>>
            => Cardinality({i \in 1..(Len(reply.text.s) - Len(outcomes[1].detail) + 1) :
                              SubSeq(reply.text.s, i, i + Len(outcomes[1].detail) - 1)
                                = outcomes[1].detail}) = 1

C14_Witness ==
  /\ call.kind = "resource" /\ ReachesClient /\ ClientRaised
  /\ reply.kind = "mcperror"
  /\ Cardinality(Wrappers(reply.text.s, ClientWrappers \cup HandlerWrappers)) = 2

\* a metadata listing by an authenticated client: the get_doctypes tool or
\* the erpnext://DocTypes resource
ListsDocTypes ==
  /\ isAuthenticated(erpnext)
  /\ \/ call.kind = "tool" /\ call.name = "get_doctypes"
     \/ call.kind = "resource" /\ call.uri = DocTypesUri

\* a tier of the listing fails when its request is rejected or when the
\* payload is truthy and not a list, so that mapping it throws
TierFailed(o) == ~o.ok \/ (Truthy(o.data) /\ o.data.ty # "array")
Payload(o) == IF Truthy(o.data) THEN o.data.s ELSE <<>>

\* the list in the text of the reply, after the JSON header
Listed == SubSeq(reply.text.s, 4, Len(reply.text.s))

\* C15: a metadata listing never fails, whatever the two upstream outcomes:
\* the schema-listing request is issued first; the search request is issued
\* exactly when the first tier failed; the built-in list of 14 names is
\* returned exactly when both tiers failed, otherwise the payload of the
\* first tier that succeeded; every tier failure is one logged line and
\* nothing is thrown; the reply is a list, never an error
C15_GetAllDocTypesNeverFails ==
  ListsDocTypes
    => LET failed1 == TierFailed(outcomes[1])
           failed2 == TierFailed(outcomes[2])
       IN /\ ~ErrorPath /\ reply.kind \in {"result", "contents"}
          /\ Len(upstream) = (IF failed1 THEN 2 ELSE 1)
          /\ upstream[1].path = <<"/api/resource/DocType">>
          /\ failed1 => upstream[2].path = <<"/api/method/frappe.desk.search.search_link">>
          /\ Listed = (IF ~failed1 THEN Payload(outcomes[1])
                       ELSE IF ~failed2 THEN Payload(outcomes[2])
                       ELSE CommonDocTypes.s)
          /\ Cardinality({i \in DOMAIN CommonDocTypes.s : CommonDocTypes.s[i] # ","}) = 14
          /\ logs = (IF ~failed1 THEN <<>>
                     ELSE IF ~failed2 THEN <<"Failed to get DocTypes:">>
                     ELSE <<"Failed to get DocTypes:", "Alternative DocType fetch failed:">>)

C15_Witness ==
  /\ ListsDocTypes /\ call.kind = "tool"
  /\ ~outcomes[1].ok /\ outcomes[2].ok /\ TierFailed(outcomes[2])
  /\ Listed = CommonDocTypes.s /\ Len(logs) = 2 /\ ~reply.isError

\* -------------------------------------------- the validators, as called
\* a tool whose first validation is validateIdentifier, called by an
\* authenticated client; the argument it validates and the field name
IdentifierCall == AuthenticatedToolCall /\ call.name # "get_doctypes"
IdentifierField == IF call.name = "run_report" THEN "report_name" ELSE "doctype"
IdentifierArgument ==
  IF call.name = "run_report" THEN call.args.report_name ELSE call.args.doctype

\* the handler caught the Error `${field}${rest}` and issued no request
Thrown(field, rest) ==
  /\ reply.kind = "result" /\ reply.isError /\ upstream = <<>>
  /\ reply.text.ty = "string"
  /\ SubSeq(reply.text.s, 2, Len(reply.text.s)) = <<field>> \o rest

AllowedCharacters == Lower \cup Upper \cup Digits \cup {"_", "-", " "}
HasDisallowed(s) == \E i \in 1..Len(s) : s[i] \notin AllowedCharacters

InvalidCharacters ==
  <<" contains invalid characters. Only alphanumeric characters, spaces, hyphens, and underscores are allowed.">>

\* C16 as stated: every identifier whose text has a character outside
\* [A-Za-z0-9_- ] is rejected with the "invalid characters" error
C16_DisallowedCharacterRejected ==
  (IdentifierCall /\ ~Nullish(IdentifierArgument)
     /\ HasDisallowed(String(IdentifierArgument)))
    => Thrown(IdentifierField, InvalidCharacters)

\* C16 as amended: an identifier is rejected with the "invalid characters"
\* error when its text, with the surrounding whitespace trimmed, is not
\* empty, is at most 140 characters long and has a character outside
\* [A-Za-z0-9_- ]; disallowed whitespace around the text is trimmed away and
\* a longer or empty text gets the error of the earlier check
C16_DisallowedCharacterAfterTrimRejected ==
  (IdentifierCall /\ ~Nullish(IdentifierArgument))
    => LET strValue == trim(String(IdentifierArgument))
       IN /\ (Len(strValue) \in 1..140 /\ HasDisallowed(strValue))
               => Thrown(IdentifierField, InvalidCharacters)
          /\ Thrown(IdentifierField, InvalidCharacters)
               => (Len(strValue) \in 1..140 /\ HasDisallowed(strValue))

C16_Witness ==
  /\ IdentifierCall /\ IdentifierArgument.ty = "string"
  /\ \E i \in 2..(Len(IdentifierArgument.s) - 1) : IdentifierArgument.s[i] = "\t"
  /\ Thrown(IdentifierField, InvalidCharacters)

\* the handler rejected the identifier: an error about its field, before any
\* request
IdentifierRejected ==
  /\ reply.kind = "result" /\ reply.isError /\ upstream = <<>>
  /\ reply.text.ty = "string" /\ Len(reply.text.s) >= 2
  /\ reply.text.s[2] = IdentifierField

ExceedsMaximumLength ==
  <<" exceeds maximum length of ", "1", "4", "0", " characters">>

\* C17 as stated: every string longer than 140 characters is rejected with
\* the "exceeds maximum length" error, and a string of exactly 140 allowed
\* characters is accepted
C17_LongerThan140Rejected ==
  (IdentifierCall /\ IdentifierArgument.ty = "string")
    => /\ Len(IdentifierArgument.s) > 140 => Thrown(IdentifierField, ExceedsMaximumLength)
       /\ (Len(IdentifierArgument.s) = 140 /\ ~HasDisallowed(IdentifierArgument.s))
            => ~IdentifierRejected

\* C17 as amended: the length that counts is that of the string with its
\* surrounding whitespace trimmed: longer than 140 it is rejected with the
\* "exceeds maximum length" error, and only then; exactly 140 allowed
\* characters long it is accepted
C17_TrimmedLongerThan140Rejected ==
  (IdentifierCall /\ IdentifierArgument.ty = "string")
    => LET strValue == trim(IdentifierArgument.s)
       IN /\ Len(strValue) > 140 <=> Thrown(IdentifierField, ExceedsMaximumLength)
          /\ (Len(strValue) = 140 /\ ~HasDisallowed(strValue)) => ~IdentifierRejected

C17_Witness ==
  /\ IdentifierCall /\ IdentifierArgument.ty = "string"
  /\ Len(IdentifierArgument.s) = 141 /\ Len(trim(IdentifierArgument.s)) = 140
  /\ ~IdentifierRejected /\ Len(upstream) = 1

\* the request the handler issued carries the identifier as strValue
Carries(strValue) ==
  CASE call.name \in {"get_documents", "create_document"} ->
         upstream[1].path = <<"/api/resource/">> \o strValue
    [] call.name = "update_document" ->
         startsWith(upstream[1].path, <<"/api/resource/">> \o strValue \o <<"/">>)
    [] call.name = "run_report" -> <<"report_name", strValue>> \in upstream[1].params
    [] OTHER ->
         upstream[1].path = <<"/api/resource/DocType/">> \o encodeURIComponent(strValue)

\* C18: validateIdentifier reports the first failing check in the order
\* required (null or undefined), empty (trimmed length 0), too long (trimmed
\* length over 140), invalid characters; otherwise it accepts the input and
\* returns its text with the surrounding whitespace trimmed, which is what
\* the upstream request then carries; validating that result again returns
\* it unchanged
C18_ChecksInOrderThenTrimmed ==
  IdentifierCall
    => LET strValue == trim(String(IdentifierArgument))
       IN IF Nullish(IdentifierArgument)
          THEN Thrown(IdentifierField, <<" is required">>)
          ELSE IF Len(strValue) = 0
          THEN Thrown(IdentifierField, <<" cannot be empty">>)
          ELSE IF Len(strValue) > 140
          THEN Thrown(IdentifierField, ExceedsMaximumLength)
          ELSE IF HasDisallowed(strValue)
          THEN Thrown(IdentifierField, InvalidCharacters)
          ELSE /\ ~IdentifierRejected
               /\ upstream # <<>> => Carries(strValue)
               /\ validateIdentifier(Str(strValue), IdentifierField) = Return(Str(strValue))

C18_Witness ==
  /\ IdentifierCall /\ IdentifierArgument.ty = "string"
  /\ Len(IdentifierArgument.s) > 2
  /\ Head(IdentifierArgument.s) = " "
  /\ IdentifierArgument.s[Len(IdentifierArgument.s)] = " "
  /\ Len(upstream) = 1 /\ Carries(trim(IdentifierArgument.s))
  /\ ~reply.isError

\* get_documents called by an authenticated client with a valid doctype:
\* the call in which validatePositiveInt decides
LimitCall ==
  /\ AuthenticatedToolCall /\ call.name = "get_documents"
  /\ validateIdentifier(call.args.doctype, "doctype").ok

\* the strictly positive whole number a value stands for; 0 when none
PositiveWhole(v) ==
  LET x == Number(v)
  IN IF x.d # 0 /\ x.n % x.d = 0 /\ x.n > 0 THEN x.n \div x.d ELSE 0

LimitParams == {p \in upstream[1].params : p[1] = "limit_page_length"}

\* C19: validatePositiveInt lets an undefined or null limit through as no
\* limit at all; a present limit is rejected with "must be a positive
\* integer" unless it stands for a strictly positive whole number, and then
\* that number is what the request carries: "50" gives 50, while 0, -5 and
\* 3.5 are rejected
C19_PositiveIntOrUndefined ==
  LimitCall
    => LET limit == call.args.limit
       IN /\ Nullish(limit) => Len(upstream) = 1 /\ LimitParams = {}
          /\ (~Nullish(limit) /\ PositiveWhole(limit) = 0)
               => Thrown("limit", <<" must be a positive integer">>)
          /\ (~Nullish(limit) /\ PositiveWhole(limit) > 0)
               => /\ Len(upstream) = 1
                  /\ LimitParams = {<<"limit_page_length", ToDigits(PositiveWhole(limit))>>}
          /\ limit \in {Num(0, 1), Num(0 - 5, 1), Num(35, 10)}
               => Thrown("limit", <<" must be a positive integer">>)
          /\ limit = Str(<<"5", "0">>)
               => LimitParams = {<<"limit_page_length", <<"5", "0">>>>}

C19_Witness ==
  /\ LimitCall /\ call.args.limit = Str(<<"5", "0">>)
  /\ Len(upstream) = 1
  /\ <<"limit_page_length", <<"5", "0">>>> \in upstream[1].params

\* ------------------------------------------------------- configuration
\* what the environment must be for new Config() to succeed; a variable
\* that is set to the empty string counts as absent
ConfigAcceptable(env) ==
  /\ Truthy(env.url)
  /\ startsWith(removeTrailingSlash(env.url.s), <<"h", "t", "t", "p">>)
  /\ Truthy(env.apiKey) <=> Truthy(env.apiSecret)

BothSupplied(env) == Truthy(env.apiKey) /\ Truthy(env.apiSecret)

\* the HTTP entry point has constructed its Config and its client
Constructed == entry = "http" /\ erpnext # NoClient

ConfigInvariant ==
  /\ Constructed
       => /\ ConfigAcceptable(processEnv)
          /\ Config(processEnv).ok
          /\ erpnext.baseUrl = removeTrailingSlash(processEnv.url.s)
          /\ hasApiKeyAuth(Config(processEnv)) <=> BothSupplied(processEnv)
          /\ isAuthenticated(erpnext) <=> BothSupplied(processEnv)
  /\ (entry = "http" /\ exited = 1) => ~ConfigAcceptable(processEnv)

\* C20: in the HTTP entry point Config is constructed exactly when
\* ERPNEXT_URL is non-empty and, one trailing slash removed, starts with
\* "http", and key and secret are both present or both absent; otherwise the
\* process exits with code 1. For a constructed Config hasApiKeyAuth(), and
\* with it the client's isAuthenticated(), is true exactly when both key and
\* secret were supplied, and no later step changes the client or the
\* environment it was built from
C20_ConfigValidOrNoStart ==
  [][/\ ConfigInvariant'
     /\ erpnext # NoClient => erpnext' = erpnext /\ processEnv' = processEnv]_vars

C20_Witness ==
  /\ Constructed
  /\ processEnv.apiKey = Str(<<>>) /\ processEnv.apiSecret = Undefined
  /\ processEnv.url.s # removeTrailingSlash(processEnv.url.s)
  /\ ~isAuthenticated(erpnext)
  /\ call.kind = "tool" /\ reply = errorResponse(NotAuthenticated)

\* --------------------------------------------------- fatal start-up errors
\* the three configuration errors: ERPNEXT_URL missing, a URL that does not
\* start with "http", only one of ERPNEXT_API_KEY / ERPNEXT_API_SECRET
ConfigurationError(env) == ~ConfigAcceptable(env)

\* C21: in both entry points a configuration error at start-up is fatal: the
\* only step such a process takes ends it with exit code 1, no client is
\* ever constructed and no protocol request is ever handed to a handler
C21_ConfigurationErrorIsFatal ==
  [][ConfigurationError(processEnv)
       => exited' = 1 /\ erpnext' = NoClient /\ call' = NoCall]_vars

\* ------------------------------------------ identifiers in upstream requests
\* an authenticated resource read of erpnext://{doctype}/{name} that issued
\* an upstream request
ResourceDocumentRead ==
  /\ call.kind = "resource" /\ call.uri # DocTypesUri
  /\ isAuthenticated(erpnext) /\ upstream # <<>>

\* the first upstream request addresses the document doctype/name
AddressesDocument(doctype, name) ==
  upstream[1].path = <<"/api/resource/">> \o doctype \o <<"/">> \o name

\* C22: every doctype, document name and report name that a tool call or a
\* resource read embeds in an upstream request is a value that
\* validateIdentifier accepted and returned; no handler reaches the client
\* with an identifier that validateIdentifier would reject
C22_EmbeddedIdentifiersValidated ==
  /\ (IdentifierCall /\ upstream # <<>>)
       => LET identifier == validateIdentifier(IdentifierArgument, IdentifierField)
              name == validateIdentifier(call.args.name, "name")
          IN /\ identifier.ok /\ Carries(identifier.value.s)
             /\ call.name = "update_document"
                  => name.ok /\ AddressesDocument(identifier.value.s, name.value.s)
  /\ ResourceDocumentRead
       => LET m == documentMatch(call.uri)
              doctype == validateIdentifier(decodeURIComponent(m.doctype).value, "doctype")
              name == validateIdentifier(decodeURIComponent(m.name).value, "name")
          IN /\ doctype.ok /\ name.ok
             /\ AddressesDocument(doctype.value.s, name.value.s)

\* the tool-call half of C22 alone
ToolIdentifiersValidated ==
  (IdentifierCall /\ upstream # <<>>)
    => LET identifier == validateIdentifier(IdentifierArgument, IdentifierField)
           name == validateIdentifier(call.args.name, "name")
       IN /\ identifier.ok /\ Carries(identifier.value.s)
          /\ call.name = "update_document"
               => name.ok /\ AddressesDocument(identifier.value.s, name.value.s)

\* ------------------------------------------------- upstream error details
\* a call of the HTTP entry point whose client method caught a failed
\* request and passed it to extractErrorDetails
NormalizedFailure == entry = "http" /\ ReachesClient /\ ClientRaised

\* the same for a failure that axios raised
NormalizedAxiosError == NormalizedFailure /\ outcomes[1].error.isAxiosError

\* the body fields in the order the code tests them
Priority == <<"_server_messages", "message", "exception", "exc", "exc_type">>

\* the position in Priority of the first field the body has a truthy
\* value for, 0 when it has none
FirstPresent(data) ==
  LET present == {i \in 1..Len(Priority) : Truthy(data.field[Priority[i]])}
  IN IF ~Truthy(data) \/ present = {} THEN 0
     ELSE CHOOSE i \in present : \A j \in present : i <= j

\* the text the branch of one field contributes
FieldText(name, v) ==
  CASE name = "_server_messages" -> ServerMessages(v)
    [] name = "exception" -> Exception(v)
    [] name = "exc" -> substring(String(v), MaxTracebackLength)
    [] OTHER -> String(v)

\* "HTTP <status>", then the status text if there is one
StatusLine(response) ==
  <<"HTTP ">> \o String(response.status)
  \o (IF Truthy(response.statusText) THEN <<" ">> \o String(response.statusText)
      ELSE <<>>)

\* C23: extractErrorDetails tests the body fields in the order
\* _server_messages, message, exception, exc, exc_type and uses only the
\* first that is present (truthy): its text alone follows the status line,
\* whatever the lower-priority fields hold, and the parts are joined
\* with " - "
C23_FirstPresentFieldOnly ==
  NormalizedAxiosError
    => LET response == outcomes[1].error.response
           first == FirstPresent(response.data)
           name == Priority[first]
       IN first # 0
            => /\ outcomes[1].detail
                    = (IF Truthy(response.status) THEN StatusLine(response) \o <<" - ">>
                       ELSE <<>>)
                      \o FieldText(name, response.data.field[name])
               /\ outcomes[1].detail
                    = extractErrorDetails(
                        [outcomes[1].error EXCEPT
                           !.response.data.field =
                              [f \in BodyFields |->
                                 IF f = name THEN @[f] ELSE Undefined]])
               /\ EndsWith(reply.text.s, outcomes[1].detail)

C23_Witness ==
  /\ NormalizedAxiosError
  /\ \A f \in BodyFields : Truthy(outcomes[1].error.response.data.field[f])
  /\ outcomes[1].detail
       = <<"HTTP ", "4", "0", "4", " ", "Not Found", " - ", "_server_messages">>
  /\ EndsWith(reply.text.s, outcomes[1].detail)

\* the body has a truthy _server_messages field
HasServerMessages ==
  /\ NormalizedAxiosError
  /\ Truthy(outcomes[1].error.response.data)
  /\ Truthy(outcomes[1].error.response.data.field["_server_messages"])

\* the details that carry text as the body-derived part
WithBodyText(text) ==
  (IF Truthy(outcomes[1].error.response.status)
   THEN StatusLine(outcomes[1].error.response) \o <<" - ">> ELSE <<>>) \o text

\* C24 as stated: the messages of the parsed elements are joined with "; ";
\* when the outer text does not parse to an array or any element does not
\* parse, the output is the raw stringified _server_messages field
C24_AnyParseFailureGivesRawField ==
  HasServerMessages
    => LET field == outcomes[1].error.response.data.field["_server_messages"]
           outer == JSONparse(String(field))
           inner == [i \in 1..Len(outer.items) |-> JSONparse(String(outer.items[i]))]
       IN IF \/ ~outer.ok \/ outer.ty # "array"
             \/ \E i \in 1..Len(outer.items) : ~inner[i].ok
          THEN outcomes[1].detail = WithBodyText(String(field))
          ELSE outcomes[1].detail
                 = WithBodyText(join([i \in 1..Len(outer.items) |->
                                        IF inner[i].ty = "object" /\ Truthy(inner[i].message)
                                        THEN inner[i].message ELSE outer.items[i]],
                                     <<"; ">>))

\* C24 as amended: the raw stringified field is the output only when the
\* outer text does not parse to an array. Otherwise every element
\* contributes one text, joined with "; ": its message when it parses to an
\* object with a truthy message, and the element itself when it does not
\* parse or has no such message
C24_ElementFallsBackToItself ==
  HasServerMessages
    => LET field == outcomes[1].error.response.data.field["_server_messages"]
           outer == JSONparse(String(field))
           inner == [i \in 1..Len(outer.items) |-> JSONparse(String(outer.items[i]))]
       IN /\ IF ~outer.ok \/ outer.ty # "array"
             THEN outcomes[1].detail = WithBodyText(String(field))
             ELSE outcomes[1].detail
                    = WithBodyText(join([i \in 1..Len(outer.items) |->
                                           IF /\ inner[i].ok /\ inner[i].ty = "object"
                                              /\ Truthy(inner[i].message)
                                           THEN inner[i].message ELSE outer.items[i]],
                                        <<"; ">>))
          /\ EndsWith(reply.text.s, outcomes[1].detail)

C24_Witness ==
  /\ HasServerMessages
  /\ outcomes[1].error.response.data.field["_server_messages"]
       = Str(ArrayText(Quoted(MessageObject("message", "Bad")), Quoted(<<"oops">>)))
  /\ EndsWith(reply.text.s, <<" - ", "Bad", "; ", "oops">>)

\* the failure carries an HTTP response
HasResponse == NormalizedAxiosError /\ Truthy(outcomes[1].error.response.status)

\* C25: for a failure with an HTTP response the output starts with
\* "HTTP <status>" and the status text if present; the failure's own message
\* is appended exactly when no body field contributed a part, and a
\* contributed part takes its place otherwise
C25_StatusLineThenBodyOrMessage ==
  HasResponse
    => LET error == outcomes[1].error
           first == FirstPresent(error.response.data)
           rest == SubSeq(outcomes[1].detail, Len(StatusLine(error.response)) + 1,
                          Len(outcomes[1].detail))
       IN /\ startsWith(outcomes[1].detail, StatusLine(error.response) \o <<" - ">>)
          /\ first = 0 <=> rest = <<" - ">> \o String(error.message)
          /\ first # 0
               => rest = <<" - ">> \o FieldText(Priority[first],
                                               error.response.data.field[Priority[first]])
          /\ EndsWith(reply.text.s, outcomes[1].detail)

C25_Witness ==
  /\ HasResponse
  /\ outcomes[1].error.response.data = Data(Str(<<"<html>">>), NoFields)
  /\ outcomes[1].detail = <<"HTTP ", "4", "0", "4", " ", "Not Found", " - ",
                            "Request failed with status code ", "4", "0", "4">>
  /\ EndsWith(reply.text.s, outcomes[1].detail)

\* C26: extractErrorDetails never returns the empty string: without an HTTP
\* response the output is the failure's message, or "Unknown error" when it
\* has none, and with a response the body-derived part is never empty
C26_NeverEmpty ==
  NormalizedFailure
    => LET error == outcomes[1].error
           first == FirstPresent(error.response.data)
       IN /\ outcomes[1].detail # <<>>
          /\ ~Truthy(error.response.status)
               => outcomes[1].detail = IF Truthy(error.message) THEN String(error.message)
                                       ELSE <<"Unknown error">>
          /\ (error.isAxiosError /\ first # 0)
               => FieldText(Priority[first], error.response.data.field[Priority[first]]) # <<>>

\* ===================================================== session id claims
\* C27: a session id that was removed from the map is never in the map
\* again; a POST whose session id header is not in the map creates nothing,
\* also when its body is an initialize request; and an id enters the map
\* only for an initialize POST that carried no session id header, generated
\* by the transport and never named by a client
C27_RemovedNeverReturnsUnknownNeverCreates ==
  [][/\ \A id \in removed : transports[id] = None /\ transports'[id] = None
     /\ (/\ event'.op = "POST" /\ event'.sid # None
         /\ event'.sid \notin Live(transports))
          => /\ event'.status = 400 /\ event'.t = None
             /\ UNCHANGED <<transports, requests, nextTransport, nextServer,
                            serverOf, sessionIdOf, usedIds>>
     /\ \A id \in SessionIds :
          transports[id] = None /\ transports'[id] # None
            => /\ event'.op = "initialize" /\ event'.sid = id
               /\ \E r \in InFlight :
                    /\ r.kind = "POST" /\ r.sid = None /\ r.pc = "handleInit"
                    /\ r.t = transports'[id]
               /\ randomUUID(usedIds) = {id}]_vars

C27_Witness ==
  /\ event.op = "POST" /\ event.init /\ event.status = 400
  /\ event.sid \in removed
  /\ Live(transports) # {}

\* every key of the map is the sessionId of the transport it maps to, and
\* no transport is the value of two keys
KeyIsSessionId ==
  /\ \A id \in Live(transports) : sessionIdOf[transports[id]] = id
  /\ \A id1, id2 \in Live(transports) :
       transports[id1] = transports[id2] => id1 = id2

\* an initialization attempt ended before its transport reported the session
\* initialized: server.connect rejected, or handleRequest answered an error
\* or rejected before it assigned a session id
InitializationFailed(e) ==
  e.op \in {"connect", "initialize"} /\ e.sid = None /\ e.status >= 400

\* C28: each key of the session map equals the sessionId of its transport
\* and no transport is registered under two keys; an initialization attempt
\* that fails before the transport reports itself initialized leaves the map
\* unchanged and its transport without a session id and out of the map
C28_KeyIsSessionIdFailedInitLeavesMap ==
  [][/\ KeyIsSessionId'
     /\ InitializationFailed(event')
          => /\ transports' = transports
             /\ sessionIdOf'[event'.t] = None
             /\ \A id \in SessionIds : transports'[id] # event'.t]_vars

C28_Witness ==
  /\ InitializationFailed(event) /\ event.op = "initialize"
  /\ Cardinality(Live(transports)) = 1
  /\ sessionIdOf[event.t] = None
  /\ \E id \in Live(transports) : sessionIdOf[transports[id]] = id

\* -------------------------------------------------------- shutdown claims
\* C29 as stated: when the shutdown handler has exited the process, every
\* session whose close() returned is out of the map and every session whose
\* close() threw is still in it, with exit code 0 either way
C29_ClosedRemovedThrownPresent ==
  exited # NotExited
    => /\ exited = 0
       /\ \A id \in closeReturned : transports[id] = None
       /\ \A id \in closeThrew : transports[id] # None

\* C29 as amended: the process exits with code 0 whether or not a close()
\* threw, and at the exit every session whose close() returned is out of the
\* map; a close() that throws is caught and its deletion is skipped, so the
\* step leaves the map as it was, and the loop deletes no key but the one
\* whose close() has just returned
C29_ClosedRemovedThrownSkipped ==
  [][/\ exited' # NotExited
          => /\ exited' = 0
             /\ \A id \in closeReturned' : transports'[id] = None
     /\ closeThrew' # closeThrew => transports' = transports
     /\ \A h \in InFlight, ok \in BOOLEAN :
          (h.kind = "SIGINT" /\ ShutdownResume(h, ok))
            => \A id \in SessionIds \ {h.sid} : transports'[id] = transports[id]]_vars

C29_Witness ==
  /\ exited = 0
  /\ \E id \in closeThrew \ closeReturned : transports[id] # None
  /\ \E id \in closeReturned : id \in removed

\* ------------------------------------------------- metadata listing claims
\* the reply went through a failure branch of a listing handler: the catch
\* block of handleGetDocTypes or the McpError of the DocTypes resource read
ListingFailureBranch ==
  \/ reply.kind \in {"mcperror", "exception"}
  \/ reply.isError
  \/ reply.text.ty = "string"
       /\ Wrappers(reply.text.s, {"Failed to get DocTypes: ", "Failed to fetch DocTypes: "})
            # {}

\* C30: for an authenticated client the get_doctypes tool never returns an
\* error-flagged result and a read of erpnext://DocTypes never raises a
\* protocol error, whatever the two upstream requests do: getAllDocTypes
\* returns in every case, so the failure branches of both handlers are
\* never taken
C30_ListingFailureBranchesUnreachable ==
  ListsDocTypes
    => /\ getAllDocTypes(outcomes[1], outcomes[2]).ok
       /\ ~ListingFailureBranch
       /\ IF call.kind = "tool" THEN reply.kind = "result" ELSE reply.kind = "contents"

C30_Witness ==
  /\ ListsDocTypes /\ call.kind = "resource"
  /\ ~outcomes[1].ok /\ ~outcomes[2].ok
  /\ Truthy(outcomes[1].error.response.status)
  /\ ~outcomes[2].error.isAxiosError
  /\ reply.kind = "contents" /\ Listed = CommonDocTypes.s

====
